---- MODULE Spec2Model ----
(***************************************************************************)
(* Workflow_Automation: the workflow execution engine                      *)
(* (workflow_builder/engine.py), the run and definition models             *)
(* (models/run.py, models/workflow.py), the two connectors and the         *)
(* filesystem storage, as a state machine.                                 *)
(*                                                                         *)
(* One event loop runs everything: a task keeps the loop from the moment   *)
(* it is resumed until its next real suspension (asyncio.sleep, the HTTP   *)
(* request, or its end).  The variable "active" names the task that holds  *)
(* the loop; every other action waits for it to be free.  The storage      *)
(* methods are coroutines without an inner suspension, so they never       *)
(* release the loop.                                                       *)
(*                                                                         *)
(* Optional values: an optional id is a string, NoneId when absent; an     *)
(* optional dict or message is a sequence, <<>> when absent; a timestamp   *)
(* is a BOOLEAN (set or not).  A message is a sequence of its parts, so    *)
(* that "Step B failed: m" keeps B and m visible.                          *)
(***************************************************************************)
EXTENDS Integers, Sequences, FiniteSets, TLC

VARIABLES
    workflows,  \* workflow storage: workflow id -> stored definition (the files)
    runs,       \* run storage: run id -> stored run record (the files)
    pc,         \* per run: where its start_workflow call / execution task is
    mem,        \* per run: the WorkflowRun object held by the code (local "run")
    wfl,        \* per run: the WorkflowDefinition held by the code (local "workflow")
    exc,        \* per run: the exception in flight / raised to the caller
    active,     \* the task holding the event loop, NoRun when it is free
    faults,     \* storage faults injected so far
    hist,       \* per run: observations (connector calls, HTTP outcomes, ...)
    arg,        \* input of the pure-function specifications
    ret         \* their result

vars == <<workflows, runs, pc, mem, wfl, exc, active, faults, hist, arg, ret>>

engineVars == <<workflows, runs, pc, mem, wfl, exc, active, faults, hist>>

----------------------------------------------------------------------------
(* Bounds and input sets *)

MaxFaults == 1      \* storage operations that may raise in one behaviour
MaxSteps == 2       \* length of the candidate step lists given to the validator

NoneId == "None"
NoRun == "NoRun"

RunIds == {"r1"}
WorkflowIds == {"w1"}
StepIds == {"A", "B", "C"}

Some(x) == <<x>>

\* dict.copy() then d[key] = value
DictSet(d, key, value) ==
    [k \in DOMAIN d \cup {key} |-> IF k = key THEN value ELSE d[k]]

\* dict.update(other): keys of other win
DictUpdate(d, other) ==
    [k \in DOMAIN d \cup DOMAIN other |-> IF k \in DOMAIN other THEN other[k] ELSE d[k]]

EmptyDict == <<>>

----------------------------------------------------------------------------
(* models/workflow.py *)

StepType == {"delay", "webhook"}

StepDefinition(id, type, config, next_step_id) ==
    [id |-> id, type |-> type, config |-> config, next_step_id |-> next_step_id]

\* field_validator('steps'): the step ids are pairwise distinct
validate_steps(steps) ==
    LET step_ids == [i \in 1..Len(steps) |-> steps[i].id]
    IN  IF Len(step_ids) # Cardinality({step_ids[i] : i \in 1..Len(step_ids)})
        THEN <<"Step IDs must be unique within a workflow">>
        ELSE <<>>

\* the validator without the loop over next_step_id (lines 59-62)
validate_entry_point_only(entry_point, steps) ==
    LET step_ids == {steps[i].id : i \in 1..Len(steps)}
    IN  IF entry_point \notin step_ids
        THEN <<"entry_point '", entry_point, "' must be a valid step ID">>
        ELSE <<>>

\* model_validator(mode='after'): entry_point and every next_step_id are step ids
validate_entry_point(entry_point, steps) ==
    LET step_ids == {steps[i].id : i \in 1..Len(steps)}
        dangling == {i \in 1..Len(steps) :
                        /\ steps[i].next_step_id # NoneId
                        /\ steps[i].next_step_id \notin step_ids}
        first == CHOOSE i \in dangling : \A j \in dangling : i <= j
    IN  IF entry_point \notin step_ids
        THEN <<"entry_point '", entry_point, "' must be a valid step ID">>
        ELSE IF dangling # {}
        THEN <<"next_step_id '", steps[first].next_step_id, "' in step '",
               steps[first].id, "' is not a valid step ID">>
        ELSE <<>>

\* WorkflowDefinition(...): the field validator runs first; the model
\* validator runs only when every field validated.  <<>> = constructed.
WorkflowDefinitionError(entry_point, steps) ==
    IF validate_steps(steps) # <<>>
    THEN validate_steps(steps)
    ELSE validate_entry_point(entry_point, steps)

WorkflowDefinition(entry_point, steps) ==
    [entry_point |-> entry_point, steps |-> steps]

\* next((s for s in workflow.steps if s.id == step_id), None)
FindStep(steps, step_id) ==
    LET hits == {i \in 1..Len(steps) : steps[i].id = step_id}
    IN  IF hits = {} THEN <<>>
        ELSE Some(steps[CHOOSE i \in hits : \A j \in hits : i <= j])

----------------------------------------------------------------------------
(* connectors/delay.py, connectors/webhook.py *)

\* Every message a validation of a connector config can raise.
ConfigError(model, field, kind) ==
    <<"validation error for ", model, ": ", field, " ", kind>>

\* DelayConfig(**config): extra='forbid', seconds: int, required, gt=0;
\* type has a default.  <<>> = the config parsed.
DelayConfig(config) ==
    IF "seconds" \notin DOMAIN config
    THEN ConfigError("DelayConfig", "seconds", "Field required")
    ELSE IF ~(config["seconds"] > 0)
    THEN ConfigError("DelayConfig", "seconds", "Input should be greater than 0")
    ELSE IF DOMAIN config \ {"type", "seconds"} # {}
    THEN ConfigError("DelayConfig", "extra", "Extra inputs are not permitted")
    ELSE <<>>

\* urlparse(v): the scheme and the network location of the URLs of the model
urlparse(v) ==
    CASE v = "http://hook/notify" -> [scheme |-> "http", netloc |-> "hook"]
      [] v = "hook/notify"        -> [scheme |-> "", netloc |-> ""]
      [] OTHER                    -> [scheme |-> "", netloc |-> ""]

\* WebhookConfig.validate_url: all([result.scheme, result.netloc])
validate_url(v) ==
    IF urlparse(v).scheme = "" \/ urlparse(v).netloc = ""
    THEN ConfigError("WebhookConfig", "url", "Value error, Invalid URL")
    ELSE <<>>

\* WebhookConfig(**config): extra='forbid', url required and validated;
\* method, headers, body and type have defaults.
WebhookConfig(config) ==
    IF "url" \notin DOMAIN config
    THEN ConfigError("WebhookConfig", "url", "Field required")
    ELSE IF validate_url(config["url"]) # <<>>
    THEN validate_url(config["url"])
    ELSE IF DOMAIN config \ {"type", "url", "method", "headers", "body"} # {}
    THEN ConfigError("WebhookConfig", "extra", "Extra inputs are not permitted")
    ELSE <<>>

\* What the HTTP call of a Webhook step can do: the environment decides.
HttpOutcomes == {"ok", "fail"}

ResponseValue == "response: 200"
HttpErrorValue == "error: request failed"

\* execute returning a changed copy of the context
DelayConnector_execute_marks(context) ==
    [value |-> DictSet(context, "delayed", "yes"), same |-> FALSE]

\* DelayConnector.execute: after the sleep, "return context": the SAME dict
\* object it was given (same |-> TRUE).
DelayConnector_execute(context) ==
    [value |-> context, same |-> TRUE]

\* WebhookConnector.execute: a copy of the context with "response" added when
\* the call succeeds; every exception is caught and a copy with "error"
\* added is returned instead.  It never raises.
WebhookConnector_execute(context, outcome) ==
    IF outcome = "ok"
    THEN [value |-> DictSet(context, "response", ResponseValue), same |-> FALSE]
    ELSE [value |-> DictSet(context, "error", HttpErrorValue), same |-> FALSE]

----------------------------------------------------------------------------
(* models/run.py.  An object of the code is [obj, aliased]: obj holds the *)
(* field values, aliased the step ids whose "output" IS the dict object    *)
(* of run.context (a Delay step returns the context object itself), so a   *)
(* later mutation of the context shows in those outputs too.               *)

StepRun(step_id) ==
    [step_id |-> step_id, status |-> "pending", start_time |-> FALSE,
     end_time |-> FALSE, error |-> <<>>, output |-> <<>>]

WorkflowRun(run_id, workflow_id, status) ==
    [obj |-> [run_id |-> run_id, workflow_id |-> workflow_id, status |-> status,
              created_at |-> TRUE, started_at |-> FALSE, completed_at |-> FALSE,
              context |-> EmptyDict, steps |-> <<>>,
              current_step_id |-> NoneId, error |-> <<>>],
     aliased |-> {}]

add_step(run, step_id) ==
    IF step_id \in DOMAIN run.obj.steps THEN run
    ELSE [run EXCEPT !.obj.steps = (step_id :> StepRun(step_id)) @@ @]

\* start_step that marks no step: the step stays as it was
start_step_unmarked(run, step_id) ==
    LET r1 == add_step(run, step_id)
    IN  IF r1.obj.status = "pending"
        THEN [r1 EXCEPT !.obj.status = "running", !.obj.started_at = TRUE]
        ELSE r1

start_step(run, step_id) ==
    LET r1 == add_step(run, step_id)
        r2 == [r1 EXCEPT !.obj.steps[step_id].status = "running",
                         !.obj.steps[step_id].start_time = TRUE]
    IN  IF r2.obj.status = "pending"
        THEN [r2 EXCEPT !.obj.status = "running", !.obj.started_at = TRUE]
        ELSE r2

\* complete_step without the status assignment: the step stays running
complete_step_keeps_running(run, step_id, output) ==
    IF step_id \notin DOMAIN run.obj.steps THEN run
    ELSE [run EXCEPT
            !.obj.steps[step_id].end_time = TRUE,
            !.obj.steps[step_id].output = Some(output.value),
            !.aliased = IF output.same /\ output.value # EmptyDict
                        THEN @ \cup {step_id} ELSE @ \ {step_id}]

\* complete_step that also marks the run completed
complete_step_completes_run(run, step_id, output) ==
    IF step_id \notin DOMAIN run.obj.steps THEN run
    ELSE [run EXCEPT
            !.obj.status = "completed",
            !.obj.steps[step_id].status = "completed",
            !.obj.steps[step_id].end_time = TRUE,
            !.obj.steps[step_id].output = Some(output.value),
            !.aliased = IF output.same /\ output.value # EmptyDict
                        THEN @ \cup {step_id} ELSE @ \ {step_id}]

\* complete_step recording no output
complete_step_without_output(run, step_id, output) ==
    IF step_id \notin DOMAIN run.obj.steps THEN run
    ELSE [run EXCEPT
            !.obj.steps[step_id].status = "completed",
            !.obj.steps[step_id].end_time = TRUE,
            !.obj.steps[step_id].output = Some(EmptyDict)]

\* complete_step(step_id, output): "output or {}" keeps the object when it
\* is not empty, and makes a fresh {} otherwise.
complete_step(run, step_id, output) ==
    IF step_id \notin DOMAIN run.obj.steps THEN run
    ELSE [run EXCEPT
            !.obj.steps[step_id].status = "completed",
            !.obj.steps[step_id].end_time = TRUE,
            !.obj.steps[step_id].output = Some(output.value),
            !.aliased = IF output.same /\ output.value # EmptyDict
                        THEN @ \cup {step_id} ELSE @ \ {step_id}]

\* fail_step that also marks the steps still pending as skipped
fail_step_skips_rest(run, step_id, error) ==
    IF step_id \notin DOMAIN run.obj.steps THEN run
    ELSE [run EXCEPT
            !.obj.steps = [s \in DOMAIN @ |->
                             IF s = step_id
                             THEN [@[s] EXCEPT !.status = "failed",
                                               !.end_time = TRUE,
                                               !.error = error]
                             ELSE IF @[s].status = "pending"
                             THEN [@[s] EXCEPT !.status = "skipped"]
                             ELSE @[s]],
            !.obj.status = "failed",
            !.obj.completed_at = TRUE,
            !.obj.error = error]

fail_step(run, step_id, error) ==
    IF step_id \notin DOMAIN run.obj.steps THEN run
    ELSE [run EXCEPT
            !.obj.steps[step_id].status = "failed",
            !.obj.steps[step_id].end_time = TRUE,
            !.obj.steps[step_id].error = error,
            !.obj.status = "failed",
            !.obj.completed_at = TRUE,
            !.obj.error = error]

\* update_context(**updates): binding the keyword arguments fails when a key
\* is "self", the name of the method's positional parameter.
update_context_error(updates) ==
    IF "self" \in DOMAIN updates
    THEN <<"update_context() got multiple values for argument 'self'">>
    ELSE <<>>

\* self.context.update(updates): mutates the context object in place, so
\* every output that is this object changes with it.
update_context(run, updates) ==
    LET ctx == DictUpdate(run.obj.context, updates)
    IN  [run EXCEPT
            !.obj.context = ctx,
            !.obj.steps = [s \in DOMAIN @ |->
                             IF s \in run.aliased
                             THEN [@[s] EXCEPT !.output = Some(ctx)]
                             ELSE @[s]]]

----------------------------------------------------------------------------
(* storage/filesystem.py: one file per entity.  A store is a function from *)
(* the ids that have a file to the document in it.  Each operation gives   *)
(* [raised, store, value]: the message of the exception raised (<<>> when  *)
(* it returned), the store afterwards, the value returned.                 *)

NotFoundError(model, id) == <<model, " with ID ", id, " not found.">>

AlreadyExistsError(model, id) == <<model, " with ID ", id, " already exists.">>

\* An I/O failure of the file system under a storage call.
StorageFault == <<"OSError">>

\* entity.model_dump_json(): the field values; which objects were shared is lost
model_dump_json(run) == run.obj

\* WorkflowRun.model_validate_json(text): fresh objects, nothing shared
model_validate_json(data) == [obj |-> data, aliased |-> {}]

\* _create without the test of lines 48-49: an existing file is overwritten
fs_create_overwrites(store, id, data, model) ==
    [raised |-> <<>>, store |-> (id :> data) @@ store, value |-> Some(data)]

fs_create(store, id, data, model) ==
    IF id \in DOMAIN store
    THEN [raised |-> AlreadyExistsError(model, id), store |-> store, value |-> <<>>]
    ELSE [raised |-> <<>>, store |-> (id :> data) @@ store, value |-> Some(data)]

fs_get(store, id, model) ==
    IF id \notin DOMAIN store
    THEN [raised |-> NotFoundError(model, id), store |-> store, value |-> <<>>]
    ELSE [raised |-> <<>>, store |-> store, value |-> Some(store[id])]

fs_update(store, id, data, model) ==
    IF id \notin DOMAIN store
    THEN [raised |-> NotFoundError(model, id), store |-> store, value |-> <<>>]
    ELSE [raised |-> <<>>, store |-> [store EXCEPT ![id] = data], value |-> Some(data)]

fs_delete(store, id, model) ==
    IF id \notin DOMAIN store
    THEN [raised |-> NotFoundError(model, id), store |-> store, value |-> <<>>]
    ELSE [raised |-> <<>>, store |-> [i \in DOMAIN store \ {id} |-> store[i]],
          value |-> <<>>]

create_run(run) ==
    fs_create(runs, run.obj.run_id, model_dump_json(run), "WorkflowRun")

get_run(run_id) == fs_get(runs, run_id, "WorkflowRun")

\* update_run writing every run to one file
update_run_one_file(run) ==
    fs_update(runs, "r1", model_dump_json(run), "WorkflowRun")

update_run(run) ==
    fs_update(runs, run.obj.run_id, model_dump_json(run), "WorkflowRun")

get_workflow(workflow_id) == fs_get(workflows, workflow_id, "WorkflowDefinition")

----------------------------------------------------------------------------
(* Inputs of the engine model *)

Delay(id, seconds, next_step_id) ==
    StepDefinition(id, "delay", ("seconds" :> seconds), next_step_id)

DelayNoSeconds(id, next_step_id) ==
    StepDefinition(id, "delay", EmptyDict, next_step_id)

Webhook(id, url, next_step_id) ==
    StepDefinition(id, "webhook", ("url" :> url), next_step_id)

GoodUrl == "http://hook/notify"
BadUrl == "hook/notify"

\* A -> B -> C, every config valid
Linear ==
    WorkflowDefinition("A", <<Delay("A", 1, "B"), Webhook("B", GoodUrl, "C"),
                              Delay("C", 1, NoneId)>>)

\* A -> B -> C, B a Delay step whose seconds is not strictly positive
BadDelay ==
    WorkflowDefinition("A", <<Webhook("A", GoodUrl, "B"), Delay("B", 0, "C"),
                              Delay("C", 1, NoneId)>>)

\* A -> B -> C, B a Webhook step whose url has no scheme
BadWebhook ==
    WorkflowDefinition("A", <<Delay("A", 1, "B"), Webhook("B", BadUrl, "C"),
                              Webhook("C", GoodUrl, NoneId)>>)

\* A -> B -> A: a cycle
Cyclic ==
    WorkflowDefinition("A", <<Delay("A", 1, "B"), Webhook("B", GoodUrl, "A")>>)

\* entry point B; A is not reachable from it; C has no seconds
Detached ==
    WorkflowDefinition("B", <<Delay("A", 1, NoneId), Webhook("B", GoodUrl, "C"),
                              DelayNoSeconds("C", NoneId)>>)

\* one Webhook step
Single ==
    WorkflowDefinition("A", <<Webhook("A", GoodUrl, NoneId)>>)

Catalog == {Linear, BadDelay, BadWebhook, Cyclic, Detached, Single}

\* The context argument of start_workflow: <<>> when none is given
Triggers ==
    { <<>>, Some(EmptyDict), Some(("k" :> "v")),
      Some(("k" :> "v") @@ ("self" :> "s")),
      Some(("k" :> "v") @@ ("error" :> "earlier")) }

----------------------------------------------------------------------------
(* engine.py *)

CONNECTOR_MAP ==
    [delay   |-> [connector |-> "DelayConnector", config |-> "DelayConfig"],
     webhook |-> [connector |-> "WebhookConnector", config |-> "WebhookConfig"]]

\* _execute_step without line 153: the raw config is never parsed
execute_step_error_without_parse(step_def) ==
    IF step_def.type \notin DOMAIN CONNECTOR_MAP
    THEN <<"Unsupported step type: ", step_def.type>>
    ELSE <<>>

\* _execute_step without lines 148-150: the missing entry is (None, None)
\* and config_cls(**step_def.config) calls None
execute_step_error_unchecked(step_def) ==
    IF step_def.type \notin DOMAIN CONNECTOR_MAP
    THEN <<"'NoneType' object is not callable">>
    ELSE IF CONNECTOR_MAP[step_def.type].config = "DelayConfig"
    THEN DelayConfig(step_def.config)
    ELSE WebhookConfig(step_def.config)

\* _execute_step up to the call of connector.execute: the table lookup and
\* config_cls(**step_def.config).  <<>> = nothing raised, the connector runs.
execute_step_error(step_def) ==
    IF step_def.type \notin DOMAIN CONNECTOR_MAP
    THEN <<"Unsupported step type: ", step_def.type>>
    ELSE IF CONNECTOR_MAP[step_def.type].config = "DelayConfig"
    THEN DelayConfig(step_def.config)
    ELSE WebhookConfig(step_def.config)

\* result = await connector.execute(context)
connector_execute(step_def, context, outcome) ==
    IF CONNECTOR_MAP[step_def.type].connector = "DelayConnector"
    THEN DelayConnector_execute(context)
    ELSE WebhookConnector_execute(context, outcome)

\* "context or {}"
context_or_empty(context) ==
    IF context = <<>> THEN EmptyDict ELSE context[1]

\* the loop of lines 57-58 stopping after the first step of the list
add_steps_first_only(run, steps, i) ==
    IF Len(steps) = 0 THEN run ELSE add_step(run, steps[1].id)

\* for step in workflow.steps: run.add_step(step.id)
RECURSIVE add_steps(_, _, _)
add_steps(run, steps, i) ==
    IF i > Len(steps) THEN run
    ELSE add_steps(add_step(run, steps[i].id), steps, i + 1)

\* lines 51-58 without line 53: the run keeps the status it was created with
start_workflow_init_stays_pending(run, workflow, context) ==
    add_steps([run EXCEPT !.obj.context = context_or_empty(context),
                          !.obj.current_step_id = workflow.entry_point,
                          !.obj.started_at = TRUE],
              workflow.steps, 1)

\* lines 51-58 with "run.context = {}" in the place of line 51
start_workflow_init_drops_context(run, workflow, context) ==
    add_steps([run EXCEPT !.obj.context = EmptyDict,
                          !.obj.current_step_id = workflow.entry_point,
                          !.obj.status = "running",
                          !.obj.started_at = TRUE],
              workflow.steps, 1)

\* start_workflow, lines 51-58: the new run made ready in memory
start_workflow_init(run, workflow, context) ==
    add_steps([run EXCEPT !.obj.context = context_or_empty(context),
                          !.obj.current_step_id = workflow.entry_point,
                          !.obj.status = "running",
                          !.obj.started_at = TRUE],
              workflow.steps, 1)

\* _execute_workflow, lines 109-112: the inner handler's changes to the run
step_failed_message(step_id, message) ==
    <<"Step ", step_id, " failed: ">> \o message

\* the handler without line 111: run.error stays the step's message
inner_except_without_prefix(run, step_id, message) ==
    [fail_step(run, step_id, message) EXCEPT
        !.obj.status = "failed",
        !.obj.completed_at = TRUE]

\* the handler also resetting the pointer
inner_except_clears_pointer(run, step_id, message) ==
    [fail_step(run, step_id, message) EXCEPT
        !.obj.status = "failed",
        !.obj.error = step_failed_message(step_id, message),
        !.obj.completed_at = TRUE,
        !.obj.current_step_id = NoneId]

inner_except(run, step_id, message) ==
    [fail_step(run, step_id, message) EXCEPT
        !.obj.status = "failed",
        !.obj.error = step_failed_message(step_id, message),
        !.obj.completed_at = TRUE]

\* lines 98-105 with a guard on line 105: a successor that completed
\* already is not entered again
step_succeeded_once(run, step_def, output) ==
    LET merged == IF output.value # EmptyDict
                  THEN update_context(run, output.value) ELSE run
        done == complete_step(merged, step_def.id, output)
        next == step_def.next_step_id
    IN  [done EXCEPT !.obj.current_step_id =
            IF /\ next \in DOMAIN done.obj.steps
               /\ done.obj.steps[next].status = "completed"
            THEN NoneId ELSE next]

\* _execute_workflow, lines 98-105: the step's result taken into the run
step_succeeded(run, step_def, output) ==
    LET merged == IF output.value # EmptyDict
                  THEN update_context(run, output.value) ELSE run
        done == complete_step(merged, step_def.id, output)
    IN  [done EXCEPT !.obj.current_step_id = step_def.next_step_id]

\* lines 120-121 completing every Step Run along with the run
run_completed_marks_all(run) ==
    [run EXCEPT !.obj.status = "completed", !.obj.completed_at = TRUE,
                !.obj.steps = [s \in DOMAIN @ |->
                                 [@[s] EXCEPT !.status = "completed"]]]

\* _execute_workflow, lines 120-121
run_completed(run) ==
    [run EXCEPT !.obj.status = "completed", !.obj.completed_at = TRUE]

\* line 86 with a message that names no step
step_not_found_unnamed(step_id, workflow_id) ==
    <<"Step not found in workflow ", workflow_id>>

\* line 86, the text of the ValueError; the definition is stored under its
\* id, so workflow.id is the run's workflow_id
step_not_found(step_id, workflow_id) ==
    <<"Step ", step_id, " not found in workflow ", workflow_id>>

\* lines 130-132 without line 130: the error is recorded, the status kept
outer_except_keeps_status(run, message) ==
    [run EXCEPT !.obj.error = message, !.obj.completed_at = TRUE]

\* _execute_workflow, lines 130-132: the outer handler's changes to the
\* run it has just reloaded
outer_except(run, message) ==
    [run EXCEPT !.obj.status = "failed", !.obj.error = message,
                !.obj.completed_at = TRUE]

NoWorkflow == WorkflowDefinition(NoneId, <<>>)
NoObject == WorkflowRun(NoneId, NoneId, "pending")

NoHist ==
    [trigger  |-> <<>>,         \* the context argument of start_workflow
     workflow |-> NoWorkflow,   \* the definition start_workflow loaded
     returned |-> <<>>,         \* the Run start_workflow returned
     invoked  |-> {},           \* steps whose connector.execute was called
     httpFailed |-> {},         \* Webhook steps whose HTTP call failed
     httpOk   |-> {},           \* Webhook steps whose HTTP call succeeded
     lastDone |-> NoneId,       \* the step that completed most recently
     done     |-> {},           \* the steps that completed
     failed   |-> <<>>,         \* <<step, message>> of the step that raised
     workflow_id |-> NoneId,    \* the workflow id given to start_workflow
     lastHttp |-> "",           \* outcome of the HTTP call of the step that
                                \* returned last ("" for a Delay step)
     fault    |-> FALSE]        \* a storage call of this run raised

FaultChoices == IF faults < MaxFaults THEN {FALSE, TRUE} ELSE {FALSE}

\* The storage call raised by a fault, or by itself
Raised(fault, res) == IF fault THEN StorageFault ELSE res.raised

\* lines 46-50 with get_workflow_or_none in the place of get_workflow: a
\* missing definition is noticed only after the run was created
StartCreate_or_none(r, w, trigger, fault) ==
    /\ active = NoRun
    /\ pc[r] = "idle"
    /\ LET got == get_workflow(w)
           run == WorkflowRun(r, w, "pending")
           made == create_run(run)
           err == IF Raised(fault, made) # <<>> THEN Raised(fault, made)
                  ELSE IF got.raised # <<>>
                  THEN <<"'NoneType' object has no attribute 'entry_point'">>
                  ELSE <<>>
       IN  /\ runs' = IF Raised(fault, made) # <<>> THEN runs ELSE made.store
           /\ IF err # <<>>
              THEN /\ pc' = [pc EXCEPT ![r] = "raised"]
                   /\ exc' = [exc EXCEPT ![r] = err]
                   /\ hist' = [hist EXCEPT ![r].trigger = trigger,
                                           ![r].workflow_id = w,
                                           ![r].fault = TRUE]
                   /\ UNCHANGED <<mem, wfl, active>>
              ELSE /\ mem' = [mem EXCEPT ![r] = run]
                   /\ wfl' = [wfl EXCEPT ![r] = got.value[1]]
                   /\ pc' = [pc EXCEPT ![r] = "start_update"]
                   /\ active' = r
                   /\ hist' = [hist EXCEPT ![r].trigger = trigger,
                                           ![r].workflow_id = w,
                                           ![r].workflow = got.value[1]]
                   /\ exc' = exc
    /\ faults' = IF fault THEN faults + 1 ELSE faults
    /\ UNCHANGED <<workflows, arg, ret>>

\* start_workflow, lines 46-50: get_workflow, WorkflowRun(...), create_run.
\* An exception goes to the caller.
StartCreate(r, w, trigger, fault) ==
    /\ active = NoRun
    /\ pc[r] = "idle"
    /\ LET got == get_workflow(w)
           run == WorkflowRun(r, w, "pending")
           made == create_run(run)
           err == IF got.raised # <<>> THEN got.raised ELSE Raised(fault, made)
       IN  IF err # <<>>
           THEN /\ fault => got.raised = <<>>
                /\ pc' = [pc EXCEPT ![r] = "raised"]
                /\ exc' = [exc EXCEPT ![r] = err]
                /\ hist' = [hist EXCEPT ![r].trigger = trigger,
                                        ![r].workflow_id = w,
                                        ![r].fault = TRUE]
                /\ UNCHANGED <<runs, mem, wfl, active>>
           ELSE /\ runs' = made.store
                /\ mem' = [mem EXCEPT ![r] = run]
                /\ wfl' = [wfl EXCEPT ![r] = got.value[1]]
                /\ pc' = [pc EXCEPT ![r] = "start_update"]
                /\ active' = r
                /\ hist' = [hist EXCEPT ![r].trigger = trigger,
                                        ![r].workflow_id = w,
                                        ![r].workflow = got.value[1]]
                /\ exc' = exc
    /\ faults' = IF fault THEN faults + 1 ELSE faults
    /\ UNCHANGED <<workflows, arg, ret>>

\* start_workflow, lines 51-66: fill the run, update_run, create_task, return
StartUpdate(r, fault) ==
    /\ active = r
    /\ pc[r] = "start_update"
    /\ LET run == start_workflow_init(mem[r], wfl[r], hist[r].trigger)
           upd == update_run(run)
           err == Raised(fault, upd)
       IN  /\ mem' = [mem EXCEPT ![r] = run]
           /\ IF err # <<>>
              THEN /\ pc' = [pc EXCEPT ![r] = "raised"]
                   /\ exc' = [exc EXCEPT ![r] = err]
                   /\ hist' = [hist EXCEPT ![r].fault = TRUE]
                   /\ runs' = runs
              ELSE /\ runs' = upd.store
                   /\ pc' = [pc EXCEPT ![r] = "scheduled"]
                   /\ hist' = [hist EXCEPT ![r].returned = Some(run.obj)]
                   /\ exc' = exc
    /\ active' = NoRun
    /\ faults' = IF fault THEN faults + 1 ELSE faults
    /\ UNCHANGED <<workflows, wfl, arg, ret>>

\* update_run in the loop without the outer try: its exception ends the task
Persist_unguarded(r, run, fault, okpc, okactive, h) ==
    LET upd == update_run(run)
        err == Raised(fault, upd)
    IN  /\ mem' = [mem EXCEPT ![r] = run]
        /\ IF err # <<>>
           THEN /\ pc' = [pc EXCEPT ![r] = "raised"]
                /\ exc' = [exc EXCEPT ![r] = err]
                /\ hist' = [hist EXCEPT ![r] = [h EXCEPT !.fault = TRUE]]
                /\ runs' = runs
                /\ active' = NoRun
           ELSE /\ runs' = upd.store
                /\ pc' = [pc EXCEPT ![r] = okpc]
                /\ exc' = exc
                /\ hist' = [hist EXCEPT ![r] = h]
                /\ active' = okactive
        /\ faults' = IF fault THEN faults + 1 ELSE faults

\* await self.run_storage.update_run(run) inside _execute_workflow's outer
\* try: when it raises, control is in the outer handler; when it returns,
\* the task goes on at okpc, and keeps the loop or not (okactive).  h is the
\* run's history after the action.
Persist(r, run, fault, okpc, okactive, h) ==
    LET upd == update_run(run)
        err == Raised(fault, upd)
    IN  /\ mem' = [mem EXCEPT ![r] = run]
        /\ IF err # <<>>
           THEN /\ pc' = [pc EXCEPT ![r] = "outer"]
                /\ exc' = [exc EXCEPT ![r] = err]
                /\ hist' = [hist EXCEPT ![r] = [h EXCEPT !.fault = TRUE]]
                /\ runs' = runs
                /\ active' = r
           ELSE /\ runs' = upd.store
                /\ pc' = [pc EXCEPT ![r] = okpc]
                /\ exc' = exc
                /\ hist' = [hist EXCEPT ![r] = h]
                /\ active' = okactive
        /\ faults' = IF fault THEN faults + 1 ELSE faults

\* _execute_workflow, lines 75-78: the task starts, get_run and get_workflow
ExecLoad(r, fault) ==
    /\ active = NoRun
    /\ pc[r] = "scheduled"
    /\ LET gr == get_run(r)
           run == model_validate_json(gr.value[1])
           gw == get_workflow(run.obj.workflow_id)
           err == IF Raised(fault, gr) # <<>> THEN Raised(fault, gr) ELSE gw.raised
       IN  IF err # <<>>
           THEN /\ pc' = [pc EXCEPT ![r] = "outer"]
                /\ exc' = [exc EXCEPT ![r] = err]
                /\ hist' = [hist EXCEPT ![r].fault = TRUE]
                /\ UNCHANGED <<mem, wfl>>
           ELSE /\ mem' = [mem EXCEPT ![r] = run]
                /\ wfl' = [wfl EXCEPT ![r] = gw.value[1]]
                /\ pc' = [pc EXCEPT ![r] = "loop"]
                /\ UNCHANGED <<exc, hist>>
    /\ active' = r
    /\ faults' = IF fault THEN faults + 1 ELSE faults
    /\ UNCHANGED <<workflows, runs, arg, ret>>

\* _execute_workflow, lines 81-90 and 119-122: the loop test; then either
\* the run is completed and saved, or the step is looked up, marked running
\* and saved
LoopStep(r, fault) ==
    /\ active = r
    /\ pc[r] = "loop"
    /\ LET run == mem[r]
           step_id == run.obj.current_step_id
           step_def == FindStep(wfl[r].steps, step_id)
       IN  IF step_id = NoneId
           THEN /\ Persist(r, run_completed(run), fault, "done", NoRun, hist[r])
                /\ wfl' = wfl
           ELSE IF step_def = <<>>
           THEN /\ ~fault
                /\ pc' = [pc EXCEPT ![r] = "outer"]
                /\ exc' = [exc EXCEPT ![r] =
                             step_not_found(step_id, run.obj.workflow_id)]
                /\ UNCHANGED <<runs, mem, wfl, active, hist, faults>>
           ELSE /\ Persist(r, start_step(run, step_id), fault, "exec", r, hist[r])
                /\ wfl' = wfl
    /\ UNCHANGED <<workflows, arg, ret>>

\* The inner handler, lines 107-114: the step and the run are failed and saved
StepFailed(r, step_id, message, fault, h) ==
    Persist(r, inner_except(mem[r], step_id, message), fault, "done", NoRun,
            [h EXCEPT !.failed = <<step_id, message>>])

\* _execute_workflow, line 95, up to the connector's suspension: the config
\* is parsed; the connector starts and the task waits for its timer or call
ExecuteStep(r, fault) ==
    /\ active = r
    /\ pc[r] = "exec"
    /\ LET step_id == mem[r].obj.current_step_id
           step_def == FindStep(wfl[r].steps, step_id)[1]
           err == execute_step_error(step_def)
       IN  IF err # <<>>
           THEN StepFailed(r, step_id, err, fault, hist[r])
           ELSE /\ ~fault
                /\ pc' = [pc EXCEPT ![r] = "await"]
                /\ hist' = [hist EXCEPT ![r].invoked = @ \cup {step_id}]
                /\ active' = NoRun
                /\ UNCHANGED <<runs, mem, exc, faults>>
    /\ UNCHANGED <<workflows, wfl, arg, ret>>

\* The connector returns (the timer expired, the HTTP call ended with
\* outcome); lines 95-117: the output is merged, the step completed, the
\* pointer advanced and the run saved.  A merge that raises fails the step.
ResumeStep(r, outcome, fault) ==
    /\ active = NoRun
    /\ pc[r] = "await"
    /\ LET run == mem[r]
           step_id == run.obj.current_step_id
           step_def == FindStep(wfl[r].steps, step_id)[1]
           isHttp == CONNECTOR_MAP[step_def.type].connector = "WebhookConnector"
           output == connector_execute(step_def, run.obj.context, outcome)
           err == IF output.value # EmptyDict
                  THEN update_context_error(output.value) ELSE <<>>
           h1 == [hist[r] EXCEPT
                    !.lastHttp = IF isHttp THEN outcome ELSE "",
                    !.httpFailed = IF isHttp /\ outcome = "fail"
                                   THEN @ \cup {step_id} ELSE @,
                    !.httpOk = IF isHttp /\ outcome = "ok"
                               THEN @ \cup {step_id} ELSE @]
       IN  /\ isHttp \/ outcome = "ok"
           /\ IF err # <<>>
              THEN StepFailed(r, step_id, err, fault, h1)
              ELSE Persist(r, step_succeeded(run, step_def, output), fault,
                           "loop", r, [h1 EXCEPT !.lastDone = step_id,
                                                 !.done = @ \cup {step_id}])
    /\ UNCHANGED <<workflows, wfl, arg, ret>>

\* The outer handler removing the definition of the run it fails
OuterHandler_deletes_definition(r, fault) ==
    /\ active = r
    /\ pc[r] = "outer"
    /\ LET gr == get_run(r)
           run == outer_except(model_validate_json(gr.value[1]), exc[r])
           upd == update_run(run)
       IN  IF Raised(fault, gr) # <<>>
           THEN UNCHANGED <<runs, mem>>
           ELSE /\ mem' = [mem EXCEPT ![r] = run]
                /\ runs' = upd.store
    /\ pc' = [pc EXCEPT ![r] = "done"]
    /\ active' = NoRun
    /\ hist' = [hist EXCEPT ![r].fault = @ \/ fault]
    /\ faults' = IF fault THEN faults + 1 ELSE faults
    /\ workflows' = [w \in DOMAIN workflows \ {hist[r].workflow_id} |-> workflows[w]]
    /\ UNCHANGED <<wfl, exc, arg, ret>>

\* The outer handler, lines 125-135: reload the run, fail it with the
\* exception's text, save it; a failure of either call is only logged
OuterHandler(r, fault) ==
    /\ active = r
    /\ pc[r] = "outer"
    /\ LET gr == get_run(r)
           run == outer_except(model_validate_json(gr.value[1]), exc[r])
           upd == update_run(run)
       IN  IF Raised(fault, gr) # <<>>
           THEN UNCHANGED <<runs, mem>>
           ELSE /\ mem' = [mem EXCEPT ![r] = run]
                /\ runs' = upd.store
    /\ pc' = [pc EXCEPT ![r] = "done"]
    /\ active' = NoRun
    /\ hist' = [hist EXCEPT ![r].fault = @ \/ fault]
    /\ faults' = IF fault THEN faults + 1 ELSE faults
    /\ UNCHANGED <<workflows, wfl, exc, arg, ret>>

----------------------------------------------------------------------------
(* The callers of the storage (main.py and any other client): definitions  *)
(* are created, replaced and deleted while the loop is free.               *)

CreateWorkflow(w, d) ==
    /\ active = NoRun
    /\ WorkflowDefinitionError(d.entry_point, d.steps) = <<>>
    /\ workflows' = fs_create(workflows, w, d, "WorkflowDefinition").store
    /\ UNCHANGED <<runs, pc, mem, wfl, exc, active, faults, hist, arg, ret>>

UpdateWorkflow(w, d) ==
    /\ active = NoRun
    /\ WorkflowDefinitionError(d.entry_point, d.steps) = <<>>
    /\ workflows' = fs_update(workflows, w, d, "WorkflowDefinition").store
    /\ UNCHANGED <<runs, pc, mem, wfl, exc, active, faults, hist, arg, ret>>

DeleteWorkflow(w) ==
    /\ active = NoRun
    /\ workflows' = fs_delete(workflows, w, "WorkflowDefinition").store
    /\ UNCHANGED <<runs, pc, mem, wfl, exc, active, faults, hist, arg, ret>>

----------------------------------------------------------------------------
(* The engine's specification *)

NoArg == <<>>

Init ==
    /\ workflows = <<>>
    /\ runs = <<>>
    /\ pc = [r \in RunIds |-> "idle"]
    /\ mem = [r \in RunIds |-> NoObject]
    /\ wfl = [r \in RunIds |-> NoWorkflow]
    /\ exc = [r \in RunIds |-> <<>>]
    /\ active = NoRun
    /\ faults = 0
    /\ hist = [r \in RunIds |-> NoHist]
    /\ arg = NoArg
    /\ ret = NoArg

Next ==
    \/ \E w \in WorkflowIds, d \in Catalog : CreateWorkflow(w, d)
    \/ \E w \in WorkflowIds, d \in Catalog : UpdateWorkflow(w, d)
    \/ \E w \in WorkflowIds : DeleteWorkflow(w)
    \/ \E r \in RunIds, w \in WorkflowIds, t \in Triggers, f \in FaultChoices :
          StartCreate(r, w, t, f)
    \/ \E r \in RunIds, f \in FaultChoices : StartUpdate(r, f)
    \/ \E r \in RunIds, f \in FaultChoices : ExecLoad(r, f)
    \/ \E r \in RunIds, f \in FaultChoices : LoopStep(r, f)
    \/ \E r \in RunIds, f \in FaultChoices : ExecuteStep(r, f)
    \/ \E r \in RunIds, o \in HttpOutcomes, f \in FaultChoices : ResumeStep(r, o, f)
    \/ \E r \in RunIds, f \in FaultChoices : OuterHandler(r, f)

Spec == Init /\ [][Next]_vars

----------------------------------------------------------------------------
(* Two runs started on one event loop.  The definitions are stored before  *)
(* and stay; each run is started on either of them.                        *)

RunPair == {"r1", "r2"}
PairWorkflows == ("w1" :> Linear) @@ ("w2" :> BadDelay)
PairTriggers == {<<>>, Some("k" :> "v")}

InitPair ==
    /\ workflows = PairWorkflows
    /\ runs = <<>>
    /\ pc = [r \in RunPair |-> "idle"]
    /\ mem = [r \in RunPair |-> NoObject]
    /\ wfl = [r \in RunPair |-> NoWorkflow]
    /\ exc = [r \in RunPair |-> <<>>]
    /\ active = NoRun
    /\ faults = 0
    /\ hist = [r \in RunPair |-> NoHist]
    /\ arg = NoArg
    /\ ret = NoArg

NextPair ==
    \/ \E r \in RunPair, w \in DOMAIN PairWorkflows, t \in PairTriggers,
          f \in FaultChoices : StartCreate(r, w, t, f)
    \/ \E r \in RunPair, f \in FaultChoices : StartUpdate(r, f)
    \/ \E r \in RunPair, f \in FaultChoices : ExecLoad(r, f)
    \/ \E r \in RunPair, f \in FaultChoices : LoopStep(r, f)
    \/ \E r \in RunPair, f \in FaultChoices : ExecuteStep(r, f)
    \/ \E r \in RunPair, o \in HttpOutcomes, f \in FaultChoices : ResumeStep(r, o, f)
    \/ \E r \in RunPair, f \in FaultChoices : OuterHandler(r, f)

SpecPair == InitPair /\ [][NextPair]_vars

----------------------------------------------------------------------------
(* Runs of definitions whose next_step_id chain has a cycle.               *)

\* A -> A
SelfLoop ==
    WorkflowDefinition("A", <<Delay("A", 1, "A")>>)

\* B -> A -> A
LoopTail ==
    WorkflowDefinition("B", <<Delay("A", 1, "A"), Webhook("B", GoodUrl, "A")>>)

Cycles == {Cyclic, SelfLoop, LoopTail}

NextCycle ==
    \/ \E w \in WorkflowIds, d \in Cycles : CreateWorkflow(w, d)
    \/ \E r \in RunIds, w \in WorkflowIds, t \in Triggers, f \in FaultChoices :
          StartCreate(r, w, t, f)
    \/ \E r \in RunIds, f \in FaultChoices : StartUpdate(r, f)
    \/ \E r \in RunIds, f \in FaultChoices : ExecLoad(r, f)
    \/ \E r \in RunIds, f \in FaultChoices : LoopStep(r, f)
    \/ \E r \in RunIds, f \in FaultChoices : ExecuteStep(r, f)
    \/ \E r \in RunIds, o \in HttpOutcomes, f \in FaultChoices : ResumeStep(r, o, f)
    \/ \E r \in RunIds, f \in FaultChoices : OuterHandler(r, f)

SpecCycle == Init /\ [][NextCycle]_vars

----------------------------------------------------------------------------
(* The engine given definitions with a step whose type is not in           *)
(* CONNECTOR_MAP.  StepType has the two members of the table, so a         *)
(* validated StepDefinition never has such a type; these are definitions   *)
(* the engine's workflow_storage hands over unvalidated (model_construct). *)

Email(id, config, next_step_id) ==
    StepDefinition(id, "email", config, next_step_id)

\* one step of an unlisted type, its config empty
EmailOnly ==
    WorkflowDefinition("A", <<Email("A", EmptyDict, NoneId)>>)

\* A -> B -> C, B of an unlisted type with a config DelayConfig would accept
EmailSecond ==
    WorkflowDefinition("A", <<Delay("A", 1, "B"), Email("B", ("seconds" :> 1), "C"),
                              Webhook("C", GoodUrl, NoneId)>>)

\* A -> B, B of an unlisted type with a config no config class accepts
EmailLast ==
    WorkflowDefinition("A", <<Webhook("A", GoodUrl, "B"),
                              Email("B", ("to" :> "x"), NoneId)>>)

Unlisted == {EmailOnly, EmailSecond, EmailLast}

InitDispatch ==
    /\ workflows \in {("w1" :> d) : d \in Unlisted}
    /\ runs = <<>>
    /\ pc = [r \in RunIds |-> "idle"]
    /\ mem = [r \in RunIds |-> NoObject]
    /\ wfl = [r \in RunIds |-> NoWorkflow]
    /\ exc = [r \in RunIds |-> <<>>]
    /\ active = NoRun
    /\ faults = 0
    /\ hist = [r \in RunIds |-> NoHist]
    /\ arg = NoArg
    /\ ret = NoArg

NextDispatch ==
    \/ \E r \in RunIds, w \in WorkflowIds, t \in Triggers, f \in FaultChoices :
          StartCreate(r, w, t, f)
    \/ \E r \in RunIds, f \in FaultChoices : StartUpdate(r, f)
    \/ \E r \in RunIds, f \in FaultChoices : ExecLoad(r, f)
    \/ \E r \in RunIds, f \in FaultChoices : LoopStep(r, f)
    \/ \E r \in RunIds, f \in FaultChoices : ExecuteStep(r, f)
    \/ \E r \in RunIds, o \in HttpOutcomes, f \in FaultChoices : ResumeStep(r, o, f)
    \/ \E r \in RunIds, f \in FaultChoices : OuterHandler(r, f)

SpecDispatch == InitDispatch /\ [][NextDispatch]_vars

----------------------------------------------------------------------------
(* Runs of definitions with a step that entry_point does not lead to, the  *)
(* definition created, and replaced, while the loop is free.               *)

\* entry point B, B -> C; A is not reachable from it; every config is valid
Island ==
    WorkflowDefinition("B", <<Delay("A", 1, NoneId), Webhook("B", GoodUrl, "C"),
                              Delay("C", 1, NoneId)>>)

\* entry point A, alone; B -> C is not reachable from it
IslandPair ==
    WorkflowDefinition("A", <<Webhook("A", GoodUrl, NoneId), Delay("B", 1, "C"),
                              Delay("C", 1, NoneId)>>)

Islands == {Island, IslandPair, Linear}

NextIsland ==
    \/ \E w \in WorkflowIds, d \in Islands : CreateWorkflow(w, d)
    \/ \E w \in WorkflowIds, d \in Islands : UpdateWorkflow(w, d)
    \/ \E r \in RunIds, w \in WorkflowIds, t \in Triggers, f \in FaultChoices :
          StartCreate(r, w, t, f)
    \/ \E r \in RunIds, f \in FaultChoices : StartUpdate(r, f)
    \/ \E r \in RunIds, f \in FaultChoices : ExecLoad(r, f)
    \/ \E r \in RunIds, f \in FaultChoices : LoopStep(r, f)
    \/ \E r \in RunIds, f \in FaultChoices : ExecuteStep(r, f)
    \/ \E r \in RunIds, o \in HttpOutcomes, f \in FaultChoices : ResumeStep(r, o, f)
    \/ \E r \in RunIds, f \in FaultChoices : OuterHandler(r, f)

SpecIsland == Init /\ [][NextIsland]_vars

----------------------------------------------------------------------------
(* Runs of definitions with more than one Webhook step.                    *)

\* A -> B, both Webhook steps
TwoHooks ==
    WorkflowDefinition("A", <<Webhook("A", GoodUrl, "B"), Webhook("B", GoodUrl, NoneId)>>)

\* A -> B -> C, a Delay step between two Webhook steps
HookDelayHook ==
    WorkflowDefinition("A", <<Webhook("A", GoodUrl, "B"), Delay("B", 1, "C"),
                              Webhook("C", GoodUrl, NoneId)>>)

Hooks == {TwoHooks, HookDelayHook, Single}

NextHooks ==
    \/ \E w \in WorkflowIds, d \in Hooks : CreateWorkflow(w, d)
    \/ \E r \in RunIds, w \in WorkflowIds, t \in Triggers, f \in FaultChoices :
          StartCreate(r, w, t, f)
    \/ \E r \in RunIds, f \in FaultChoices : StartUpdate(r, f)
    \/ \E r \in RunIds, f \in FaultChoices : ExecLoad(r, f)
    \/ \E r \in RunIds, f \in FaultChoices : LoopStep(r, f)
    \/ \E r \in RunIds, f \in FaultChoices : ExecuteStep(r, f)
    \/ \E r \in RunIds, o \in HttpOutcomes, f \in FaultChoices : ResumeStep(r, o, f)
    \/ \E r \in RunIds, f \in FaultChoices : OuterHandler(r, f)

SpecHooks == Init /\ [][NextHooks]_vars

----------------------------------------------------------------------------
(* Construction of a WorkflowDefinition, alone: the validators applied to  *)
(* every candidate (entry_point, steps) of the bounded input set.          *)

CandidateIds == {"A", "B"}
CandidateNext == {NoneId, "A", "B", "C"}
CandidateEntry == {"A", "B", "C"}

CandidateStep == {Delay(id, 1, n) : id \in CandidateIds, n \in CandidateNext}

CandidateSteps ==
    UNION {[1..n -> CandidateStep] : n \in 0..MaxSteps}

Unset == <<"unset">>

InitValidate ==
    /\ workflows = <<>>
    /\ runs = <<>>
    /\ pc = [r \in RunIds |-> "idle"]
    /\ mem = [r \in RunIds |-> NoObject]
    /\ wfl = [r \in RunIds |-> NoWorkflow]
    /\ exc = [r \in RunIds |-> <<>>]
    /\ active = NoRun
    /\ faults = 0
    /\ hist = [r \in RunIds |-> NoHist]
    /\ arg \in {WorkflowDefinition(e, st) : e \in CandidateEntry, st \in CandidateSteps}
    /\ ret = Unset

\* WorkflowDefinition(entry_point=..., steps=...)
Construct ==
    /\ ret = Unset
    /\ ret' = WorkflowDefinitionError(arg.entry_point, arg.steps)
    /\ UNCHANGED <<workflows, runs, pc, mem, wfl, exc, active, faults, hist, arg>>

NextValidate == Construct

SpecValidate == InitValidate /\ [][NextValidate]_vars

----------------------------------------------------------------------------
(* connectors/webhook.py, the rendering of headers and body.  A string is  *)
(* a sequence of parts: <<"lit", text>>, the replacement field              *)
(* <<"ph", name>> ("{name}") and the positional field <<"pos">> ("{}").    *)
(* A value is a record with its kind: none, str, int, list or dict.  A     *)
(* result is [raised, value], raised = <<>> when nothing was raised.       *)

MaxParts == 2       \* parts of a string given to the renderer

Lit(text) == <<"lit", text>>
Field(name) == <<"ph", name>>
Positional == <<"pos">>

NoneValue == [kind |-> "none"]
IntValue == [kind |-> "int"]
StrValue(s) == [kind |-> "str", parts |-> s]
ListValue(items) == [kind |-> "list", items |-> items]
DictValue(items) == [kind |-> "dict", items |-> items]

Returned(v) == [raised |-> <<>>, value |-> v]
Raises(e) == [raised |-> e, value |-> <<>>]

\* The exception of value.format(**context): fields are looked up from left
\* to right, a positional one in the empty args tuple
RECURSIVE format_error(_, _, _)
format_error(s, context, i) ==
    IF i > Len(s) THEN <<>>
    ELSE IF s[i] = Positional THEN <<"IndexError">>
    ELSE IF s[i][1] = "ph" /\ s[i][2] \notin DOMAIN context
    THEN <<"KeyError", s[i][2]>>
    ELSE format_error(s, context, i + 1)

\* value.format(**context) when it raises nothing
format(s, context) ==
    [i \in 1..Len(s) |->
        IF s[i][1] = "ph" THEN Lit(context[s[i][2]]) ELSE s[i]]

\* format without the lookup failure: a missing name is left as the field
format_lenient(s, context) ==
    [i \in 1..Len(s) |->
        IF s[i][1] = "ph" /\ s[i][2] \in DOMAIN context
        THEN Lit(context[s[i][2]]) ELSE s[i]]

\* try: value.format(**context) except (KeyError, ValueError): value, with
\* a format that substitutes what it finds
render_string_lenient(s, context) ==
    IF \E i \in 1..Len(s) : s[i] = Positional THEN Raises(<<"IndexError">>)
    ELSE Returned(format_lenient(s, context))

\* try: value.format(**context) except (KeyError, ValueError): value
render_string(s, context) ==
    LET err == format_error(s, context, 1)
    IN  IF err = <<>> THEN Returned(format(s, context))
        ELSE IF err[1] \in {"KeyError", "ValueError"} THEN Returned(s)
        ELSE Raises(err)

\* The first exception of a collection of results, <<>> when there is none
RECURSIVE first_raised(_, _)
first_raised(results, i) ==
    IF i > Len(results) THEN <<>>
    ELSE IF results[i].raised # <<>> THEN results[i].raised
    ELSE first_raised(results, i + 1)

\* WebhookConnector._render_value
RECURSIVE _render_value(_, _)
_render_value(value, context) ==
    IF value.kind = "none" THEN Returned(value)
    ELSE IF value.kind = "str"
    THEN LET res == render_string(value.parts, context)
         IN  IF res.raised # <<>> THEN res ELSE Returned(StrValue(res.value))
    ELSE IF value.kind = "dict"
    THEN LET keys == DOMAIN value.items
             res == [k \in keys |-> _render_value(value.items[k], context)]
         IN  IF \E k \in keys : res[k].raised # <<>>
             THEN Raises(res[CHOOSE k \in keys : res[k].raised # <<>>].raised)
             ELSE Returned(DictValue([k \in keys |-> res[k].value]))
    ELSE IF value.kind = "list"
    THEN LET res == [i \in 1..Len(value.items) |->
                        _render_value(value.items[i], context)]
         IN  IF first_raised(res, 1) # <<>> THEN Raises(first_raised(res, 1))
             ELSE Returned(ListValue([i \in 1..Len(res) |-> res[i].value]))
    ELSE Returned(value)

\* WebhookConnector._render_body: self.body is None or a dict (WebhookConfig)
_render_body(body, context) ==
    IF body.kind = "none" THEN Returned(body)
    ELSE IF body.kind = "dict"
    THEN LET keys == DOMAIN body.items
             res == [k \in keys |-> _render_value(body.items[k], context)]
         IN  IF \E k \in keys : res[k].raised # <<>>
             THEN Raises(res[CHOOSE k \in keys : res[k].raised # <<>>].raised)
             ELSE Returned(DictValue([k \in keys |-> res[k].value]))
    ELSE IF body.kind = "list"
    THEN LET res == [i \in 1..Len(body.items) |->
                        _render_value(body.items[i], context)]
         IN  IF first_raised(res, 1) # <<>> THEN Raises(first_raised(res, 1))
             ELSE Returned(ListValue([i \in 1..Len(res) |-> res[i].value]))
    ELSE _render_value(body, context)

\* WebhookConnector._render_headers: every header value is a string
_render_headers(headers, context) ==
    LET keys == DOMAIN headers.items
        res == [k \in keys |-> render_string(headers.items[k].parts, context)]
    IN  IF \E k \in keys : res[k].raised # <<>>
        THEN Raises(res[CHOOSE k \in keys : res[k].raised # <<>>].raised)
        ELSE Returned(DictValue([k \in keys |-> StrValue(res[k].value)]))

\* The strings, bodies, headers and contexts given to the renderer
RenderParts == {Lit("id="), Field("k"), Field("m"), Positional}
RenderStrings == UNION {[1..n -> RenderParts] : n \in 1..MaxParts}

RenderBodies ==
    {NoneValue}
    \cup {DictValue("f" :> StrValue(s)) : s \in RenderStrings}
    \cup {DictValue("f" :> ListValue(<<StrValue(s), IntValue>>)) : s \in RenderStrings}
    \cup {DictValue("f" :> DictValue("g" :> ListValue(<<NoneValue, StrValue(s)>>))) :
            s \in RenderStrings}

RenderHeaders == {DictValue("h" :> StrValue(s)) : s \in RenderStrings}

RenderContexts == {EmptyDict, "k" :> "v", ("k" :> "v") @@ ("m" :> "w")}

InitRender ==
    /\ workflows = <<>>
    /\ runs = <<>>
    /\ pc = [r \in RunIds |-> "idle"]
    /\ mem = [r \in RunIds |-> NoObject]
    /\ wfl = [r \in RunIds |-> NoWorkflow]
    /\ exc = [r \in RunIds |-> <<>>]
    /\ active = NoRun
    /\ faults = 0
    /\ hist = [r \in RunIds |-> NoHist]
    /\ arg \in {[what |-> "body", value |-> b, context |-> c] :
                  b \in RenderBodies, c \in RenderContexts}
               \cup {[what |-> "headers", value |-> h, context |-> c] :
                       h \in RenderHeaders, c \in RenderContexts}
    /\ ret = Unset

\* The renderer has returned or raised: ret = <<"rendered", result>>
Rendered == Len(ret) = 2

\* self._render_body(context), line 50
RenderBody ==
    /\ Len(ret) = 1
    /\ arg.what = "body"
    /\ ret' = <<"rendered", _render_body(arg.value, arg.context)>>
    /\ UNCHANGED <<workflows, runs, pc, mem, wfl, exc, active, faults, hist, arg>>

\* self._render_headers(context), line 49
RenderHeadersCall ==
    /\ Len(ret) = 1
    /\ arg.what = "headers"
    /\ ret' = <<"rendered", _render_headers(arg.value, arg.context)>>
    /\ UNCHANGED <<workflows, runs, pc, mem, wfl, exc, active, faults, hist, arg>>

NextRender == RenderBody \/ RenderHeadersCall

SpecRender == InitRender /\ [][NextRender]_vars

----------------------------------------------------------------------------
(* The storage and the engine's lookup called directly.  arg is the call,  *)
(* ret its result [raised, value]; hist is what the callers were told is   *)
(* stored: for each store, the record last created or updated under an id, *)
(* removed by a delete that returned.                                      *)

StorageRunIds == {"r1", "r2"}
StorageWorkflowIds == {"w1", "w2"}

\* Runs as the engine holds them at three moments of an execution
NewRun(id) == WorkflowRun(id, "w1", "pending")
StartedRun(id) == start_workflow_init(NewRun(id), Linear, Some("k" :> "v"))
DelayedRun(id) ==
    step_succeeded(start_step(StartedRun(id), "A"),
                   FindStep(Linear.steps, "A")[1],
                   DelayConnector_execute(StartedRun(id).obj.context))

StorageRuns ==
    {NewRun(id) : id \in StorageRunIds}
    \cup {StartedRun(id) : id \in StorageRunIds}
    \cup {DelayedRun(id) : id \in StorageRunIds}

StorageWorkflows == {Linear, Single}

AttributeError(name) ==
    <<"'WorkflowEngine' object has no attribute '", name, "'">>

\* storage.update_workflow / delete_workflow on the store of definitions
update_workflow(workflow_id, workflow) ==
    fs_update(workflows, workflow_id, workflow, "WorkflowDefinition")

delete_workflow(workflow_id) ==
    LET res == fs_delete(workflows, workflow_id, "WorkflowDefinition")
    IN  IF res.raised # <<>> THEN res
        ELSE [res EXCEPT !.value = Some(TRUE)]

\* engine.get_run_status: "return await self.storage.get_run(run_id)"; the
\* engine has the attributes workflow_storage and run_storage only
get_run_status(run_id) ==
    [raised |-> AttributeError("storage"), store |-> runs, value |-> <<>>]

NoCall == [op |-> "none"]
NoResult == [raised |-> <<>>, value |-> <<>>]
Told(toldRuns, toldWorkflows) == [runs |-> toldRuns, workflows |-> toldWorkflows]

InitStorage ==
    /\ workflows = <<>>
    /\ runs = <<>>
    /\ pc = [r \in RunIds |-> "idle"]
    /\ mem = [r \in RunIds |-> NoObject]
    /\ wfl = [r \in RunIds |-> NoWorkflow]
    /\ exc = [r \in RunIds |-> <<>>]
    /\ active = NoRun
    /\ faults = 0
    /\ hist = Told(<<>>, <<>>)
    /\ arg = NoCall
    /\ ret = NoResult

\* What a call leaves: the store, the result, and what the caller was told
StorageCall(call, res, toldRuns, toldWorkflows) ==
    /\ arg' = call
    /\ ret' = [raised |-> res.raised, value |-> res.value]
    /\ hist' = IF res.raised = <<>> THEN Told(toldRuns, toldWorkflows) ELSE hist
    /\ UNCHANGED <<pc, mem, wfl, exc, active, faults>>

Without(store, id) == [i \in DOMAIN store \ {id} |-> store[i]]

CallCreateRun(run) ==
    LET res == create_run(run)
    IN  /\ runs' = res.store
        /\ workflows' = workflows
        /\ StorageCall([op |-> "create_run", id |-> run.obj.run_id, entity |-> run],
                       [res EXCEPT !.value = IF res.raised = <<>> THEN Some(run) ELSE <<>>],
                       (run.obj.run_id :> run.obj) @@ hist.runs, hist.workflows)

CallGetRun(id) ==
    LET res == get_run(id)
    IN  /\ UNCHANGED <<runs, workflows>>
        /\ StorageCall([op |-> "get_run", id |-> id],
                       [res EXCEPT !.value = IF res.raised = <<>>
                                             THEN Some(model_validate_json(res.value[1]))
                                             ELSE <<>>],
                       hist.runs, hist.workflows)

CallUpdateRun(run) ==
    LET res == update_run(run)
    IN  /\ runs' = res.store
        /\ workflows' = workflows
        /\ StorageCall([op |-> "update_run", id |-> run.obj.run_id, entity |-> run],
                       [res EXCEPT !.value = <<>>],
                       (run.obj.run_id :> run.obj) @@ hist.runs, hist.workflows)

CallGetRunStatus(id) ==
    LET res == get_run_status(id)
    IN  /\ runs' = res.store
        /\ workflows' = workflows
        /\ StorageCall([op |-> "get_run_status", id |-> id], res,
                       hist.runs, hist.workflows)

CallCreateWorkflow(id, workflow) ==
    LET res == fs_create(workflows, id, workflow, "WorkflowDefinition")
    IN  /\ workflows' = res.store
        /\ runs' = runs
        /\ StorageCall([op |-> "create_workflow", id |-> id, entity |-> workflow],
                       res, hist.runs, (id :> workflow) @@ hist.workflows)

CallGetWorkflow(id) ==
    LET res == get_workflow(id)
    IN  /\ UNCHANGED <<runs, workflows>>
        /\ StorageCall([op |-> "get_workflow", id |-> id], res,
                       hist.runs, hist.workflows)

CallUpdateWorkflow(id, workflow) ==
    LET res == update_workflow(id, workflow)
    IN  /\ workflows' = res.store
        /\ runs' = runs
        /\ StorageCall([op |-> "update_workflow", id |-> id, entity |-> workflow],
                       res, hist.runs, (id :> workflow) @@ hist.workflows)

CallDeleteWorkflow(id) ==
    LET res == delete_workflow(id)
    IN  /\ workflows' = res.store
        /\ runs' = runs
        /\ StorageCall([op |-> "delete_workflow", id |-> id], res,
                       hist.runs, Without(hist.workflows, id))

NextStorage ==
    \/ \E run \in StorageRuns : CallCreateRun(run)
    \/ \E id \in StorageRunIds : CallGetRun(id)
    \/ \E run \in StorageRuns : CallUpdateRun(run)
    \/ \E id \in StorageRunIds : CallGetRunStatus(id)
    \/ \E id \in StorageWorkflowIds, w \in StorageWorkflows : CallCreateWorkflow(id, w)
    \/ \E id \in StorageWorkflowIds : CallGetWorkflow(id)
    \/ \E id \in StorageWorkflowIds, w \in StorageWorkflows : CallUpdateWorkflow(id, w)
    \/ \E id \in StorageWorkflowIds : CallDeleteWorkflow(id)

SpecStorage == InitStorage /\ [][NextStorage]_vars

----------------------------------------------------------------------------
(* Vocabulary of the properties *)

StepIdsOf(workflow) == {workflow.steps[i].id : i \in 1..Len(workflow.steps)}

NextOf(workflow, step_id) == FindStep(workflow.steps, step_id)[1].next_step_id

\* The steps met by following next_step_id from step_id
RECURSIVE ChainFrom(_, _, _)
ChainFrom(workflow, step_id, seen) ==
    IF step_id = NoneId \/ step_id \in seen \/ FindStep(workflow.steps, step_id) = <<>>
    THEN seen
    ELSE ChainFrom(workflow, NextOf(workflow, step_id), seen \cup {step_id})

Chain(workflow) == ChainFrom(workflow, workflow.entry_point, {})

\* Following next_step_id from step_id ends at a step without successor
RECURSIVE EndsFrom(_, _, _)
EndsFrom(workflow, step_id, seen) ==
    IF step_id = NoneId THEN TRUE
    ELSE IF step_id \in seen \/ FindStep(workflow.steps, step_id) = <<>> THEN FALSE
    ELSE EndsFrom(workflow, NextOf(workflow, step_id), seen \cup {step_id})

Acyclic(workflow) == EndsFrom(workflow, workflow.entry_point, {})

\* Every step of the chain has a config its connector accepts
ConfigsValid(workflow) ==
    \A s \in Chain(workflow) :
        execute_step_error(FindStep(workflow.steps, s)[1]) = <<>>

\* The execution of run r is over, no storage call of it raised, and it ran
\* the definition start_workflow had loaded
RanToEnd(r) ==
    /\ pc[r] = "done"
    /\ ~hist[r].fault
    /\ wfl[r] = hist[r].workflow

TriggerContext(r) == context_or_empty(hist[r].trigger)

----------------------------------------------------------------------------
(* C1: a run of a well-formed workflow (acyclic chain, every config valid) *)
(* whose connectors return and whose storage calls succeed ends stored as  *)
(* completed, completed_at set, every step of the chain completed.         *)
C1_LinearExecution ==
    \A r \in RunIds :
        (RanToEnd(r) /\ Acyclic(wfl[r]) /\ ConfigsValid(wfl[r]))
        => /\ runs[r].status = "completed"
           /\ runs[r].completed_at
           /\ \A s \in Chain(wfl[r]) : runs[r].steps[s].status = "completed"

\* The same for the trigger contexts that have no key "self"
C1_LinearExecutionWithoutSelfKey ==
    \A r \in RunIds :
        (/\ RanToEnd(r) /\ Acyclic(wfl[r]) /\ ConfigsValid(wfl[r])
         /\ "self" \notin DOMAIN TriggerContext(r))
        => /\ runs[r].status = "completed"
           /\ runs[r].completed_at
           /\ \A s \in Chain(wfl[r]) : runs[r].steps[s].status = "completed"

----------------------------------------------------------------------------
(* C2: when a step B raises with message m inside the loop's try block     *)
(* and the storage calls succeed, the stored run ends failed, completed_at *)
(* set, error "Step B failed: m"; B is failed with error m; the steps that *)
(* completed before B are completed; every other step, and every step     *)
(* after B on the chain, is pending and its connector was never invoked.   *)
C2_FailureShortCircuit ==
    \A r \in RunIds :
        (pc[r] = "done" /\ ~hist[r].fault /\ hist[r].failed # <<>>)
        => LET B == hist[r].failed[1]
               m == hist[r].failed[2]
               rec == runs[r]
               after == ChainFrom(wfl[r], NextOf(wfl[r], B), {}) \ {B}
           IN  /\ rec.status = "failed"
               /\ rec.completed_at
               /\ rec.error = <<"Step ", B, " failed: ">> \o m
               /\ rec.steps[B].status = "failed"
               /\ rec.steps[B].error = m
               /\ \A s \in hist[r].done \ {B} : rec.steps[s].status = "completed"
               /\ \A s \in DOMAIN rec.steps \ (hist[r].done \cup {B}) :
                     /\ rec.steps[s].status = "pending"
                     /\ s \notin hist[r].invoked
               /\ Acyclic(wfl[r]) =>
                     \A s \in after : /\ s \in DOMAIN rec.steps =>
                                            rec.steps[s].status = "pending"
                                      /\ s \notin hist[r].invoked

\* B failed on a bad config after A completed, and C was left pending
C2_Witness ==
    \E r \in RunIds :
        /\ pc[r] = "done" /\ ~hist[r].fault
        /\ hist[r].failed # <<>>
        /\ hist[r].failed[1] = "B"
        /\ hist[r].failed[2][1] = "validation error for "
        /\ "A" \in hist[r].done
        /\ runs[r].steps["C"].status = "pending"

----------------------------------------------------------------------------
(* C3: in every stored and in-memory state of a run at most one Step Run   *)
(* is running; a step becomes running only as the run's current_step_id,   *)
(* which is the entry point when no step has completed yet and otherwise   *)
(* the next_step_id of the step that completed last, itself completed.     *)
RunningSteps(rec) == {s \in DOMAIN rec.steps : rec.steps[s].status = "running"}

C3_AtMostOneRunning ==
    \A r \in RunIds :
        /\ r \in DOMAIN runs => Cardinality(RunningSteps(runs[r])) <= 1
        /\ Cardinality(RunningSteps(mem[r].obj)) <= 1

C3_StartsInOrder ==
    \A r \in RunIds, s \in StepIds :
        (/\ r \in DOMAIN runs /\ r \in DOMAIN runs'
         /\ s \in RunningSteps(runs'[r])
         /\ s \notin RunningSteps(runs[r]))
        => /\ runs[r].current_step_id = s
           /\ runs'[r].current_step_id = s
           /\ IF hist[r].lastDone = NoneId
              THEN s = hist[r].workflow.entry_point
              ELSE /\ NextOf(wfl[r], hist[r].lastDone) = s
                   /\ runs[r].steps[hist[r].lastDone].status = "completed"

C3_SequentialOrdering == []C3_AtMostOneRunning /\ [][C3_StartsInOrder]_vars

\* B is running after A completed
C3_Witness ==
    \E r \in RunIds :
        /\ r \in DOMAIN runs
        /\ "A" \in DOMAIN runs[r].steps /\ "B" \in DOMAIN runs[r].steps
        /\ runs[r].steps["A"].status = "completed"
        /\ runs[r].steps["B"].status = "running"
        /\ hist[r].lastDone = "A"

----------------------------------------------------------------------------
(* C4: when start_workflow has returned and the execution task has not     *)
(* started yet, the stored record equals the returned Run: status running, *)
(* current_step_id the entry point, context the supplied one (empty when   *)
(* none was given), one pending Step Run per step of the definition, no    *)
(* step started and no connector invoked.                                  *)
C4_FireAndForget ==
    \A r \in RunIds :
        pc[r] = "scheduled"
        => /\ r \in DOMAIN runs
           /\ hist[r].returned = <<runs[r]>>
           /\ runs[r].status = "running"
           /\ runs[r].current_step_id = hist[r].workflow.entry_point
           /\ runs[r].context =
                 (IF hist[r].trigger = <<>> THEN <<>> ELSE hist[r].trigger[1])
           /\ DOMAIN runs[r].steps = StepIdsOf(hist[r].workflow)
           /\ \A s \in DOMAIN runs[r].steps :
                 /\ runs[r].steps[s].status = "pending"
                 /\ ~runs[r].steps[s].start_time
           /\ hist[r].invoked = {}

\* start_workflow returned the run of a three-step definition with a context
C4_Witness ==
    \E r \in RunIds :
        /\ pc[r] = "scheduled"
        /\ hist[r].trigger = <<[k |-> "v"]>>
        /\ Len(hist[r].workflow.steps) = 3
        /\ hist[r].returned # <<>>

----------------------------------------------------------------------------
(* C5: start_workflow with a workflow id that has no stored definition     *)
(* raises NotFound and leaves the run storage as it was; a call that       *)
(* raised has no run scheduled: nothing of it ever runs or is stored.      *)
C5_NoRecordAfterNotFound ==
    \A r \in RunIds :
        (/\ pc[r] = "raised"
         /\ exc[r] = <<"WorkflowDefinition", " with ID ", hist[r].workflow_id,
                       " not found.">>)
        => r \notin DOMAIN runs

C5_RaisesNotFound ==
    \A r \in RunIds :
        /\ (/\ pc[r] = "idle" /\ pc'[r] # "idle"
            /\ hist'[r].workflow_id \notin DOMAIN workflows)
           => /\ pc'[r] = "raised"
              /\ exc'[r] = <<"WorkflowDefinition", " with ID ",
                             hist'[r].workflow_id, " not found.">>
              /\ runs' = runs
        /\ pc[r] = "raised" => /\ pc'[r] = "raised"
                               /\ runs' = runs

C5_UnknownWorkflow == []C5_NoRecordAfterNotFound /\ [][C5_RaisesNotFound]_vars

\* start_workflow was called while no definition was stored
C5_Witness ==
    \E r \in RunIds :
        /\ pc[r] = "raised"
        /\ exc[r] = <<"WorkflowDefinition", " with ID ", "w1", " not found.">>
        /\ r \notin DOMAIN runs

----------------------------------------------------------------------------
(* C6: WorkflowDefinition(entry_point, steps) is constructed exactly when  *)
(* the step ids are pairwise distinct, entry_point is one of them and      *)
(* every next_step_id that is not absent is one of them; otherwise         *)
(* (duplicates, unknown entry point, dangling successor, no step at all)   *)
(* it raises a validation error.                                           *)
C6_WellFormed(d) ==
    /\ \A i, j \in 1..Len(d.steps) : i # j => d.steps[i].id # d.steps[j].id
    /\ \E i \in 1..Len(d.steps) : d.steps[i].id = d.entry_point
    /\ \A i \in 1..Len(d.steps) :
          \/ d.steps[i].next_step_id = NoneId
          \/ \E j \in 1..Len(d.steps) : d.steps[j].id = d.steps[i].next_step_id

C6_DefinitionValidation ==
    ret # Unset => /\ (ret = <<>>) <=> C6_WellFormed(arg)
                   /\ Len(arg.steps) = 0 => ret # <<>>

\* a chain of two steps was accepted
C6_Witness ==
    /\ ret = <<>>
    /\ Len(arg.steps) = 2
    /\ arg.steps[1].next_step_id = arg.steps[2].id

\* a definition with a dangling next_step_id and nothing else wrong was refused
C6_WitnessDangling ==
    /\ ret # Unset /\ ret # <<>>
    /\ Len(arg.steps) = 2
    /\ arg.steps[1].id # arg.steps[2].id
    /\ arg.entry_point = arg.steps[1].id
    /\ arg.steps[2].next_step_id = "C"

----------------------------------------------------------------------------
(* C7: the stored status of a run appears as pending and then changes only *)
(* pending -> running, running -> completed, running -> failed; a stored   *)
(* completed or failed status never changes, and no record disappears,     *)
(* whatever the steps do and whichever storage calls fail.                 *)
StoredStatus(store, r) == IF r \in DOMAIN store THEN store[r].status ELSE "absent"

C7_Transition ==
    \A r \in RunIds :
        \/ StoredStatus(runs', r) = StoredStatus(runs, r)
        \/ <<StoredStatus(runs, r), StoredStatus(runs', r)>> \in
              { <<"absent", "pending">>, <<"pending", "running">>,
                <<"running", "completed">>, <<"running", "failed">> }

C7_RunStateMachine == [][C7_Transition]_vars

\* a run was stored as failed by the outer handler after a storage call raised
C7_Witness ==
    \E r \in RunIds :
        /\ pc[r] = "done"
        /\ hist[r].fault
        /\ runs[r].status = "failed"
        /\ runs[r].error = <<"OSError">>

\* a run was stored as completed
C7_WitnessCompleted ==
    \E r \in RunIds : pc[r] = "done" /\ runs[r].status = "completed"

----------------------------------------------------------------------------
(* C8: when the HTTP call of a Webhook step fails and the storage calls    *)
(* succeed, the step is stored completed, its output and the run's context *)
(* hold an "error" key, the run stays running and current_step_id moves to *)
(* the step's next_step_id.                                                *)
C8_FailedCallCompletes(r) ==
    LET s == mem[r].obj.current_step_id
    IN  /\ runs'[r].steps[s].status = "completed"
        /\ runs'[r].steps[s].output # <<>>
        /\ "error" \in DOMAIN runs'[r].steps[s].output[1]
        /\ "error" \in DOMAIN runs'[r].context
        /\ runs'[r].status = "running"
        /\ runs'[r].current_step_id = NextOf(wfl[r], s)
        /\ hist'[r].failed = <<>>

C8_HttpCallFailed(r) ==
    /\ pc[r] = "await" /\ pc'[r] # "await"
    /\ hist'[r].lastHttp = "fail"
    /\ ~hist'[r].fault

C8_WebhookAsymmetry ==
    [][\A r \in RunIds : C8_HttpCallFailed(r) => C8_FailedCallCompletes(r)]_vars

\* The same for the contexts that have no key "self"
C8_WebhookAsymmetryWithoutSelfKey ==
    [][\A r \in RunIds :
          (C8_HttpCallFailed(r) /\ "self" \notin DOMAIN mem[r].obj.context)
          => C8_FailedCallCompletes(r)]_vars

----------------------------------------------------------------------------
(* C9: a definition with a step whose config its connector rejects is      *)
(* constructed and stored; in a run of it the connector of that step is    *)
(* never invoked, the step stays pending until it is the current step, at  *)
(* which point every step before it on the chain is completed, and once    *)
(* reached it is stored failed together with the run; a run in which no    *)
(* step before it failed and no storage call raised ends that way.         *)
Malformed(workflow, s) ==
    LET step_def == FindStep(workflow.steps, s)[1]
    IN  \/ step_def.type = "delay" /\ DelayConfig(step_def.config) # <<>>
        \/ step_def.type = "webhook" /\ WebhookConfig(step_def.config) # <<>>

\* The steps of the chain from step_id up to, not including, target
RECURSIVE PrecedingFrom(_, _, _, _)
PrecedingFrom(workflow, step_id, target, seen) ==
    IF \/ step_id = target \/ step_id = NoneId \/ step_id \in seen
       \/ FindStep(workflow.steps, step_id) = <<>>
    THEN seen
    ELSE PrecedingFrom(workflow, NextOf(workflow, step_id), target,
                       seen \cup {step_id})

Preceding(workflow, s) == PrecedingFrom(workflow, workflow.entry_point, s, {})

C9_LazyConfigValidation ==
    \A r \in RunIds :
        (/\ r \in DOMAIN runs /\ runs[r].status # "pending"
         /\ wfl[r] = hist[r].workflow)
        => \A s \in StepIdsOf(wfl[r]) :
              Malformed(wfl[r], s)
              => /\ WorkflowDefinitionError(wfl[r].entry_point, wfl[r].steps) = <<>>
                 /\ s \notin hist[r].invoked
                 /\ runs[r].steps[s].status \in {"pending", "running", "failed"}
                 /\ runs[r].steps[s].status # "pending"
                       => /\ runs[r].current_step_id = s
                          /\ \A p \in Preceding(wfl[r], s) :
                                runs[r].steps[p].status = "completed"
                 /\ runs[r].steps[s].status = "failed"
                       => /\ runs[r].status = "failed"
                          /\ hist[r].failed # <<>>
                          /\ hist[r].failed[1] = s
                 /\ (/\ pc[r] = "done" /\ ~hist[r].fault
                     /\ runs[r].steps[s].status # "pending")
                       => /\ runs[r].steps[s].status = "failed"
                          /\ runs[r].status = "failed"
                 /\ (/\ pc[r] = "done" /\ ~hist[r].fault
                     /\ s \in Chain(wfl[r])
                     /\ \A p \in Preceding(wfl[r], s) :
                           runs[r].steps[p].status # "failed")
                       => /\ runs[r].steps[s].status = "failed"
                          /\ runs[r].status = "failed"
                          /\ \A p \in Preceding(wfl[r], s) :
                                runs[r].steps[p].status = "completed"

\* the run of a stored definition whose step B is a Delay with seconds = 0
\* completed A, failed at B without invoking it and left C pending
C9_Witness ==
    \E r \in RunIds :
        /\ pc[r] = "done" /\ ~hist[r].fault
        /\ wfl[r] = hist[r].workflow
        /\ wfl[r] = BadDelay
        /\ runs[r].steps["A"].status = "completed"
        /\ runs[r].steps["B"].status = "failed"
        /\ runs[r].steps["C"].status = "pending"
        /\ hist[r].invoked = {"A"}

----------------------------------------------------------------------------
(* C10, as claimed: a stored run that is completed or failed has no        *)
(* current_step_id, and a stored run that is running has one.              *)
C10_AbsentWhenTerminal ==
    \A r \in DOMAIN runs :
        /\ runs[r].status \in {"completed", "failed"}
              => runs[r].current_step_id = NoneId
        /\ runs[r].status = "running" => runs[r].current_step_id # NoneId

(* C10, amended: a stored run that is completed has no current_step_id; a  *)
(* run stored as failed keeps the current_step_id it had when it failed,   *)
(* which after a step failure is the failed step; while the stored run is  *)
(* running, a step that is running is the current step, the step being     *)
(* executed is the current step, and current_step_id is absent only once   *)
(* the last step of the chain has completed.                               *)
C10_Pointer ==
    \A r \in DOMAIN runs :
        /\ runs[r].status = "completed" => runs[r].current_step_id = NoneId
        /\ (runs[r].status = "failed" /\ hist[r].failed # <<>> /\ ~hist[r].fault)
              => runs[r].current_step_id = hist[r].failed[1]
        /\ runs[r].status = "running"
              => /\ \A s \in RunningSteps(runs[r]) : runs[r].current_step_id = s
                 /\ pc[r] \in {"exec", "await"}
                       => /\ runs[r].current_step_id = mem[r].obj.current_step_id
                          /\ runs[r].current_step_id \in RunningSteps(runs[r])
                 /\ runs[r].current_step_id = NoneId
                       => /\ hist[r].lastDone # NoneId
                          /\ NextOf(wfl[r], hist[r].lastDone) = NoneId
                          /\ runs[r].steps[hist[r].lastDone].status = "completed"

C10_FailureKeepsPointer ==
    \A r \in RunIds :
        (/\ r \in DOMAIN runs /\ r \in DOMAIN runs'
         /\ runs[r].status # "failed" /\ runs'[r].status = "failed")
        => runs'[r].current_step_id = runs[r].current_step_id

C10_CurrentStepPointer == []C10_Pointer /\ [][C10_FailureKeepsPointer]_vars

\* a run stored as failed whose current_step_id names the failed step B
C10_Witness ==
    \E r \in RunIds :
        /\ r \in DOMAIN runs
        /\ pc[r] = "done"
        /\ runs[r].status = "failed"
        /\ hist[r].failed # <<>>
        /\ runs[r].current_step_id = "B"
        /\ runs[r].steps["B"].status = "failed"

----------------------------------------------------------------------------
(* C11, as claimed: in every stored state of a run the keys of run.steps   *)
(* are the step ids of the definition start_workflow loaded, each Step     *)
(* Run's step_id is its key, and no step of an execution adds or removes   *)
(* an entry.                                                               *)
C11_KeysAreStepIds ==
    \A r \in DOMAIN runs :
        /\ DOMAIN runs[r].steps = StepIdsOf(hist[r].workflow)
        /\ \A s \in DOMAIN runs[r].steps : runs[r].steps[s].step_id = s

(* C11, amended: a run stored as pending has no Step Runs; from its first  *)
(* save as running on, the keys of run.steps include every step id of the  *)
(* definition start_workflow loaded (reached or not) and are exactly those *)
(* while the execution runs that definition; each Step Run's step_id is    *)
(* its key; an execution never removes an entry, and the only entries it   *)
(* adds are steps it starts from a definition that replaced the original.  *)
C11_Keys ==
    \A r \in DOMAIN runs :
        LET keys == DOMAIN runs[r].steps
            ids == StepIdsOf(hist[r].workflow)
        IN  /\ \A s \in keys : runs[r].steps[s].step_id = s
            /\ runs[r].status = "pending" => keys = {}
            /\ runs[r].status # "pending" => ids \subseteq keys
            /\ (runs[r].status # "pending" /\ wfl[r] = hist[r].workflow)
                  => keys = ids
            /\ \A s \in keys \ ids :
                  /\ s \in StepIdsOf(wfl[r])
                  /\ runs[r].steps[s].status # "pending"

C11_NoEntryRemoved ==
    \A r \in RunIds :
        (r \in DOMAIN runs /\ r \in DOMAIN runs')
        => DOMAIN runs[r].steps \subseteq DOMAIN runs'[r].steps

C11_PrePopulated == []C11_Keys /\ [][C11_NoEntryRemoved]_vars

\* a run that failed at step B: the entry of C, never reached, is stored
C11_Witness ==
    \E r \in RunIds :
        /\ r \in DOMAIN runs
        /\ pc[r] = "done"
        /\ wfl[r] = hist[r].workflow
        /\ DOMAIN runs[r].steps = {"A", "B", "C"}
        /\ runs[r].steps["B"].status = "failed"
        /\ runs[r].steps["C"].status = "pending"

\* a run started on a one-step definition that was replaced before the
\* execution loaded it: the execution added an entry
C11_WitnessAdded ==
    \E r \in RunIds :
        /\ r \in DOMAIN runs
        /\ StepIdsOf(hist[r].workflow) = {"A"}
        /\ "B" \in DOMAIN runs[r].steps

----------------------------------------------------------------------------
(* C12: once a run is stored as running, every save keeps every key of the *)
(* stored context, and every key other than "response" and "error" keeps   *)
(* its value; so the keys of the trigger context other than these two have *)
(* their original value in every stored state up to the terminal one; the  *)
(* context a step is given is the stored context left by the step before.  *)
C12_Kept(before, after) ==
    /\ DOMAIN before \subseteq DOMAIN after
    /\ \A k \in DOMAIN before \ {"response", "error"} : after[k] = before[k]

C12_TriggerKept ==
    \A r \in DOMAIN runs :
        runs[r].status # "pending"
        => /\ C12_Kept(TriggerContext(r), runs[r].context)
           /\ pc[r] \in {"exec", "await"}
                 => mem[r].obj.context = runs[r].context

C12_SaveKeeps ==
    \A r \in RunIds :
        (r \in DOMAIN runs /\ r \in DOMAIN runs' /\ runs[r].status # "pending")
        => C12_Kept(runs[r].context, runs'[r].context)

C12_ContextPropagation == []C12_TriggerKept /\ [][C12_SaveKeeps]_vars

\* a finished run whose trigger had the keys k and error: a Webhook step's
\* failed call replaced the value of error and left k alone
C12_Witness ==
    \E r \in RunIds :
        /\ r \in DOMAIN runs
        /\ pc[r] = "done"
        /\ hist[r].httpFailed # {}
        /\ hist[r].done # {}
        /\ "error" \in DOMAIN TriggerContext(r)
        /\ runs[r].context["error"] # TriggerContext(r)["error"]
        /\ runs[r].context["k"] = TriggerContext(r)["k"]

----------------------------------------------------------------------------
\* The save of this step stores step s of run r as completed
CompletesStep(r, s) ==
    /\ r \in DOMAIN runs /\ r \in DOMAIN runs'
    /\ s \in DOMAIN runs[r].steps /\ s \in DOMAIN runs'[r].steps
    /\ runs[r].steps[s].status # "completed"
    /\ runs'[r].steps[s].status = "completed"

\* The keys of after that before has not, or has with another value
Delta(before, after) ==
    [k \in {j \in DOMAIN after : j \notin DOMAIN before \/ before[j] # after[j]}
        |-> after[k]]

(* C13, as claimed: the output stored for a step that completes is the     *)
(* delta between the context the step was given and the context it        *)
(* produced (empty for a Delay step).                                      *)
C13_OutputIsDelta ==
    [][\A r \in RunIds, s \in StepIds :
          CompletesStep(r, s)
          => runs'[r].steps[s].output
                = Some(Delta(runs[r].context, runs'[r].context))]_vars

(* C13, amended: the output stored for a step that completes is the whole  *)
(* context the connector returned, which is the run's context as stored by *)
(* that save (for a Delay step the context it was given, unchanged).       *)
C13_OutputIsContext ==
    [][\A r \in RunIds, s \in StepIds :
          CompletesStep(r, s)
          => /\ runs'[r].steps[s].output = Some(runs'[r].context)
             /\ hist'[r].lastHttp = ""
                   => runs'[r].steps[s].output = Some(runs[r].context)]_vars

\* a Delay step completed in a run with a context that is not empty: its
\* stored output is that context
C13_Witness ==
    \E r \in RunIds :
        /\ r \in DOMAIN runs
        /\ pc[r] = "loop"
        /\ hist[r].lastHttp = ""
        /\ hist[r].lastDone \in DOMAIN runs[r].steps
        /\ runs[r].steps[hist[r].lastDone].status = "completed"
        /\ runs[r].context # EmptyDict
        /\ runs[r].steps[hist[r].lastDone].output = Some(runs[r].context)

----------------------------------------------------------------------------
\* The strings of a value
RECURSIVE StringsOf(_)
StringsOf(value) ==
    IF value.kind = "str" THEN {value.parts}
    ELSE IF value.kind = "dict"
    THEN UNION {StringsOf(value.items[k]) : k \in DOMAIN value.items}
    ELSE IF value.kind = "list"
    THEN UNION {StringsOf(value.items[i]) : i \in 1..Len(value.items)}
    ELSE {}

NamesOf(s) == {s[i][2] : i \in {j \in 1..Len(s) : s[j][1] = "ph"}}

\* Each field whose name is a key replaced, the others left as they are
EachPresentReplaced(s, context) ==
    [i \in 1..Len(s) |->
        IF s[i][1] = "ph" /\ s[i][2] \in DOMAIN context
        THEN Lit(context[s[i][2]]) ELSE s[i]]

\* Every field replaced when every name is a key, else the string as it was
AllOrNothing(s, context) ==
    IF NamesOf(s) \subseteq DOMAIN context
    THEN EachPresentReplaced(s, context) ELSE s

\* A value with every string replaced by what the rule gives
RECURSIVE MapStrings(_, _, _)
MapStrings(value, context, rule) ==
    IF value.kind = "str"
    THEN StrValue(IF rule = "each" THEN EachPresentReplaced(value.parts, context)
                  ELSE AllOrNothing(value.parts, context))
    ELSE IF value.kind = "dict"
    THEN DictValue([k \in DOMAIN value.items |->
                       MapStrings(value.items[k], context, rule)])
    ELSE IF value.kind = "list"
    THEN ListValue([i \in 1..Len(value.items) |->
                       MapStrings(value.items[i], context, rule)])
    ELSE value

(* C14, as claimed: rendering never fails, and in every string of the      *)
(* headers and the body, nested ones included, each {name} whose name is a *)
(* key of the context is replaced by the value and each other {name} is    *)
(* left as its text, also in a string that has both.                       *)
C14_TolerantInterpolation ==
    Rendered
    => /\ ret[2].raised = <<>>
       /\ ret[2].value = MapStrings(arg.value, arg.context, "each")

(* C14, amended: a string whose names are all keys of the context has     *)
(* each {name} replaced by the value; a string with at least one missing   *)
(* name is left whole as its original text, its present fields included;   *)
(* rendering fails, with IndexError, exactly when some string has a        *)
(* positional field {} that no missing name precedes.                      *)
StringRaises(s, context) ==
    \E i \in 1..Len(s) :
        /\ s[i] = Positional
        /\ \A j \in 1..(i - 1) : s[j][1] = "ph" => s[j][2] \in DOMAIN context

C14_AllOrNothingInterpolation ==
    Rendered
    => IF \E s \in StringsOf(arg.value) : StringRaises(s, arg.context)
       THEN ret[2].raised = <<"IndexError">>
       ELSE /\ ret[2].raised = <<>>
            /\ ret[2].value = MapStrings(arg.value, arg.context, "all")

\* a nested body string with a present and a missing field was rendered
\* and came back unchanged
C14_Witness ==
    /\ Rendered
    /\ arg.what = "body"
    /\ arg.context = "k" :> "v"
    /\ <<Field("k"), Field("m")>> \in StringsOf(arg.value)
    /\ ret[2].raised = <<>>
    /\ ret[2].value = arg.value

\* a string in which every field is present was rendered with the values
C14_WitnessReplaced ==
    /\ Rendered
    /\ arg.what = "headers"
    /\ arg.context = "k" :> "v"
    /\ <<Lit("id="), Field("k")>> \in StringsOf(arg.value)
    /\ ret[2].raised = <<>>
    /\ <<Lit("id="), Lit("v")>> \in StringsOf(ret[2].value)

----------------------------------------------------------------------------
\* Run r is suspended in the timer of a Delay step
InDelay(r) ==
    /\ pc[r] = "await"
    /\ FindStep(wfl[r].steps, mem[r].obj.current_step_id)[1].type = "delay"

(* C15, as claimed: while the timer of a Delay step runs, the stored       *)
(* current_step_id is that step, its Step Run is running and its successor *)
(* is pending; the save that completes the step stores the context that    *)
(* was stored before it.                                                   *)
C15_DelayHolds(r) ==
    LET s == mem[r].obj.current_step_id
    IN  /\ runs[r].current_step_id = s
        /\ runs[r].steps[s].status = "running"

C15_SuccessorPending ==
    \A r \in RunIds :
        InDelay(r)
        => LET s == mem[r].obj.current_step_id
               n == NextOf(wfl[r], s)
           IN  /\ C15_DelayHolds(r)
               /\ n # NoneId
                     => /\ n \in DOMAIN runs[r].steps
                        /\ runs[r].steps[n].status = "pending"

C15_DelaySemantics ==
    /\ []C15_SuccessorPending
    /\ [][\A r \in RunIds :
             (InDelay(r) /\ CompletesStep(r, mem[r].obj.current_step_id))
             => runs'[r].context = runs[r].context]_vars

(* C15, amended: while the timer of a Delay step runs, the stored record   *)
(* of the run does not change: current_step_id is that step, its Step Run  *)
(* is the only one running and its successor is not started; the successor *)
(* is pending when the run executes the acyclic definition it was started  *)
(* on, while on a cycle it can be a step completed earlier or the Delay    *)
(* step itself, and under a definition that replaced the original it can   *)
(* have no Step Run yet.  The save that completes the step stores the      *)
(* context that was stored before it.                                      *)
C15_TimerHolds ==
    \A r \in RunIds :
        InDelay(r)
        => LET s == mem[r].obj.current_step_id
               n == NextOf(wfl[r], s)
           IN  /\ C15_DelayHolds(r)
               /\ RunningSteps(runs[r]) = {s}
               /\ (/\ n # NoneId /\ Acyclic(wfl[r])
                   /\ wfl[r] = hist[r].workflow)
                     => runs[r].steps[n].status = "pending"

C15_TimerStep ==
    \A r \in RunIds :
        InDelay(r)
        => /\ pc'[r] = "await" => runs'[r] = runs[r]
           /\ CompletesStep(r, mem[r].obj.current_step_id)
                 => runs'[r].context = runs[r].context

C15_DelayKeepsRun == []C15_TimerHolds /\ [][C15_TimerStep]_vars

\* on the cycle A -> B -> A the Delay step A waits again; B completed before
C15_Witness ==
    \E r \in RunIds :
        /\ InDelay(r)
        /\ wfl[r] = Cyclic
        /\ mem[r].obj.current_step_id = "A"
        /\ "B" \in DOMAIN runs[r].steps
        /\ runs[r].steps["B"].status = "completed"
        /\ runs[r].context # EmptyDict

\* a Delay step with a pending successor waits
C15_WitnessPending ==
    \E r \in RunIds :
        /\ InDelay(r)
        /\ wfl[r] = Linear
        /\ mem[r].obj.current_step_id = "A"
        /\ runs[r].steps["B"].status = "pending"

----------------------------------------------------------------------------
(* C16: a store holds exactly the records last created or updated under    *)
(* each id, and a get returns a record equal to it; a create of a stored   *)
(* id raises AlreadyExists and a get or update of an id that is not stored *)
(* raises NotFound, each leaving the store as it was; a create or update   *)
(* that returns stores the whole record given under its id and leaves the  *)
(* other records alone.                                                    *)
C16_StoreHoldsTold ==
    /\ DOMAIN runs = DOMAIN hist.runs
    /\ \A id \in DOMAIN runs : model_validate_json(runs[id]).obj = hist.runs[id]
    /\ DOMAIN workflows = DOMAIN hist.workflows
    /\ \A id \in DOMAIN workflows : workflows[id] = hist.workflows[id]

C16_Written(store, after, id, data) ==
    /\ DOMAIN after = DOMAIN store \cup {id}
    /\ after[id] = data
    /\ \A i \in DOMAIN store \ {id} : after[i] = store[i]

C16_Create(store, after, told, model) ==
    IF arg'.id \in DOMAIN store
    THEN /\ ret'.raised = AlreadyExistsError(model, arg'.id)
         /\ after = store
    ELSE /\ ret'.raised = <<>>
         /\ C16_Written(store, after, arg'.id, told)

C16_Update(store, after, told, model) ==
    IF arg'.id \notin DOMAIN store
    THEN /\ ret'.raised = NotFoundError(model, arg'.id)
         /\ after = store
    ELSE /\ ret'.raised = <<>>
         /\ C16_Written(store, after, arg'.id, told)

C16_Get(store, after, told, model) ==
    /\ after = store
    /\ IF arg'.id \notin DOMAIN store
       THEN ret'.raised = NotFoundError(model, arg'.id)
       ELSE /\ ret'.raised = <<>>
            /\ told = hist[IF model = "WorkflowRun" THEN "runs" ELSE "workflows"][arg'.id]

C16_Call ==
    /\ arg'.op = "create_run"
          => C16_Create(runs, runs', arg'.entity.obj, "WorkflowRun")
    /\ arg'.op = "update_run"
          => C16_Update(runs, runs', arg'.entity.obj, "WorkflowRun")
    /\ arg'.op = "get_run"
          => C16_Get(runs, runs', ret'.value[1].obj, "WorkflowRun")
    /\ arg'.op = "create_workflow"
          => C16_Create(workflows, workflows', arg'.entity, "WorkflowDefinition")
    /\ arg'.op = "update_workflow"
          => C16_Update(workflows, workflows', arg'.entity, "WorkflowDefinition")
    /\ arg'.op = "get_workflow"
          => C16_Get(workflows, workflows', ret'.value[1], "WorkflowDefinition")

C16_WitnessExists ==
    /\ arg.op = "create_run"
    /\ ret.raised = AlreadyExistsError("WorkflowRun", arg.id)
    /\ runs[arg.id] # arg.entity.obj

----------------------------------------------------------------------------
(* C19: engine.get_run_status(run_id) returns the stored run when the id  *)
(* is stored and raises NotFound when it is not, and leaves the store as   *)
(* it was.                                                                 *)
C19_StatusLookup ==
    [][arg'.op = "get_run_status"
       => /\ runs' = runs
          /\ IF arg'.id \in DOMAIN runs
             THEN /\ ret'.raised = <<>>
                  /\ ret'.value = Some(model_validate_json(runs[arg'.id]))
             ELSE ret'.raised = NotFoundError("WorkflowRun", arg'.id)]_vars

----------------------------------------------------------------------------
(* C20: delete_workflow(id) of a stored id removes the definition and      *)
(* returns True, after which the id is not stored; of an id that is not    *)
(* stored it returns False without raising.                                *)
C20_DeleteWorkflow ==
    [][arg'.op = "delete_workflow"
       => IF arg'.id \in DOMAIN workflows
          THEN /\ ret'.raised = <<>>
               /\ ret'.value = Some(TRUE)
               /\ workflows' = Without(workflows, arg'.id)
               /\ fs_get(workflows', arg'.id, "WorkflowDefinition").raised
                     = NotFoundError("WorkflowDefinition", arg'.id)
          ELSE /\ ret'.raised = <<>>
               /\ ret'.value = Some(FALSE)
               /\ workflows' = workflows]_vars

\* The same for the ids that are stored
C20_DeleteStoredWorkflow ==
    [][(arg'.op = "delete_workflow" /\ arg'.id \in DOMAIN workflows)
       => /\ ret'.raised = <<>>
          /\ ret'.value = Some(TRUE)
          /\ workflows' = Without(workflows, arg'.id)
          /\ fs_get(workflows', arg'.id, "WorkflowDefinition").raised
                = NotFoundError("WorkflowDefinition", arg'.id)]_vars

----------------------------------------------------------------------------
(* C17: every step of start_workflow and of an execution, on the success,  *)
(* step-failure and outer-failure paths, leaves the store of definitions   *)
(* as it was.                                                              *)
EngineStep == <<runs, pc, mem, wfl, exc, active, faults, hist>>' #
              <<runs, pc, mem, wfl, exc, active, faults, hist>>

C17_DefinitionReadOnly == [][EngineStep => workflows' = workflows]_vars

\* a run that ended through the outer handler; its definition is stored as
\* start_workflow loaded it
C17_Witness ==
    \E r \in RunIds :
        /\ pc[r] = "done"
        /\ exc[r] # <<>>
        /\ r \in DOMAIN runs
        /\ runs[r].status = "failed"
        /\ hist[r].workflow_id \in DOMAIN workflows
        /\ workflows[hist[r].workflow_id] = hist[r].workflow

\* a run that ended completed; its definition is stored as it was loaded
C17_WitnessCompleted ==
    \E r \in RunIds :
        /\ pc[r] = "done"
        /\ r \in DOMAIN runs
        /\ runs[r].status = "completed"
        /\ hist[r].workflow_id \in DOMAIN workflows
        /\ workflows[hist[r].workflow_id] = hist[r].workflow

----------------------------------------------------------------------------
\* The run that the engine's steps make of a start, taken one after the
\* other with nothing in between: failedCalls are the Webhook steps whose
\* HTTP call fails
RECURSIVE AloneFrom(_, _, _)
AloneFrom(run, workflow, failedCalls) ==
    LET step_id == run.obj.current_step_id
        step_def == FindStep(workflow.steps, step_id)[1]
        started == start_step(run, step_id)
        err == execute_step_error(step_def)
        output == connector_execute(step_def, started.obj.context,
                                    IF step_id \in failedCalls THEN "fail" ELSE "ok")
        merge == IF output.value # EmptyDict
                 THEN update_context_error(output.value) ELSE <<>>
    IN  IF step_id = NoneId THEN run_completed(run)
        ELSE IF err # <<>> THEN inner_except(started, step_id, err)
        ELSE IF merge # <<>> THEN inner_except(started, step_id, merge)
        ELSE AloneFrom(step_succeeded(started, step_def, output), workflow,
                       failedCalls)

Alone(r) ==
    AloneFrom(start_workflow_init(WorkflowRun(r, hist[r].workflow_id, "pending"),
                                  hist[r].workflow, hist[r].trigger),
              hist[r].workflow, hist[r].httpFailed)

\* A step of run q can be taken
CanAdvance(q) ==
    ENABLED (\/ \E w \in DOMAIN PairWorkflows, t \in PairTriggers :
                  StartCreate(q, w, t, FALSE)
             \/ StartUpdate(q, FALSE)
             \/ ExecLoad(q, FALSE)
             \/ LoopStep(q, FALSE)
             \/ ExecuteStep(q, FALSE)
             \/ \E o \in HttpOutcomes : ResumeStep(q, o, FALSE)
             \/ OuterHandler(q, FALSE))

(* C18: of two runs on one loop, a step that changes the stored record or  *)
(* the position of one run is a step of that run alone and leaves the      *)
(* other run's record and object as they were; while one run is suspended  *)
(* in a Delay or Webhook step the other, unless it has ended, can take its *)
(* next step; and a run that ended without a storage failure is stored     *)
(* with the status, step statuses and context of the same start executed   *)
(* alone.                                                                  *)
C18_OwnRecordOnly ==
    \A q \in RunPair :
        (\/ pc'[q] # pc[q]
         \/ (q \in DOMAIN runs') # (q \in DOMAIN runs)
         \/ (q \in DOMAIN runs /\ q \in DOMAIN runs' /\ runs'[q] # runs[q]))
        => /\ pc'[q] # pc[q]
           /\ \A p \in RunPair \ {q} :
                 /\ pc'[p] = pc[p]
                 /\ mem'[p] = mem[p]
                 /\ (p \in DOMAIN runs') = (p \in DOMAIN runs)
                 /\ p \in DOMAIN runs => runs'[p] = runs[p]

C18_NotBlocked ==
    \A r \in RunPair, q \in RunPair :
        (r # q /\ pc[r] = "await" /\ pc[q] \notin {"done", "raised"})
        => CanAdvance(q)

C18_AsAlone ==
    \A r \in RunPair :
        (pc[r] = "done" /\ ~hist[r].fault)
        => /\ runs[r].status = Alone(r).obj.status
           /\ runs[r].context = Alone(r).obj.context
           /\ DOMAIN runs[r].steps = DOMAIN Alone(r).obj.steps
           /\ \A s \in DOMAIN runs[r].steps :
                 runs[r].steps[s].status = Alone(r).obj.steps[s].status

C18_RunsIndependent ==
    /\ [](C18_NotBlocked /\ C18_AsAlone)
    /\ [][C18_OwnRecordOnly]_vars

\* r1 is still suspended in its first step while r2, started on the same
\* definition, completed its three steps
C18_Witness ==
    /\ pc["r1"] = "await"
    /\ hist["r1"].done = {}
    /\ pc["r2"] = "done"
    /\ hist["r2"].workflow_id = hist["r1"].workflow_id
    /\ "r2" \in DOMAIN runs
    /\ runs["r2"].status = "completed"
    /\ runs["r2"] = Alone("r2").obj

\* both runs ended, on different definitions, one completed and one failed
C18_WitnessBothEnded ==
    /\ pc["r1"] = "done" /\ pc["r2"] = "done"
    /\ hist["r1"].workflow_id # hist["r2"].workflow_id
    /\ ~hist["r1"].fault /\ ~hist["r2"].fault
    /\ {runs["r1"].status, runs["r2"].status} = {"completed", "failed"}

----------------------------------------------------------------------------
(* C21: an exception that escapes the loop puts the execution in the outer *)
(* handler with that exception; the handler's step stores the run as it    *)
(* was stored, with status failed, the exception's text as error and       *)
(* completed_at set; when the reload or the update of the handler raises,  *)
(* the stored run is left as it was.                                       *)
C21_Escaped ==
    \A r \in RunIds : pc[r] = "outer" => (exc[r] # <<>> /\ r \in DOMAIN runs)

C21_Recovery ==
    \A r \in RunIds :
        (pc[r] = "outer" /\ pc'[r] # "outer")
        => /\ pc'[r] = "done"
           /\ IF faults' = faults
              THEN runs' = [runs EXCEPT ![r] = [@ EXCEPT !.status = "failed",
                                                        !.error = exc[r],
                                                        !.completed_at = TRUE]]
              ELSE runs' = runs

C21_OuterFaultRecovery == []C21_Escaped /\ [][C21_Recovery]_vars

\* an update_run of the loop raised; the handler stored the run as failed
\* with the exception's text
C21_Witness ==
    \E r \in RunIds :
        /\ pc[r] = "done"
        /\ exc[r] = StorageFault
        /\ faults = 1
        /\ runs[r].status = "failed"
        /\ runs[r].error = StorageFault
        /\ runs[r].completed_at

\* the definition was gone when the execution loaded it, and the handler's
\* own storage call raised: the run is stored as start_workflow left it
C21_WitnessUnrecovered ==
    \E r \in RunIds :
        /\ pc[r] = "done"
        /\ exc[r] # <<>> /\ exc[r] # StorageFault
        /\ faults = 1
        /\ runs[r].status = "running"
        /\ hist[r].returned = Some(runs[r])

----------------------------------------------------------------------------
(* C22: an exception reaches a caller only from start_workflow, before the *)
(* Run was returned and before any step was started; once the execution is *)
(* scheduled every step of it leads to another step of it or to its normal *)
(* end, whatever failed; a failure of the execution shows in the stored    *)
(* run as status failed, unless a storage call raised, and the Run that    *)
(* start_workflow returned is the running one.                             *)
ExecutionPositions == {"scheduled", "loop", "exec", "await", "outer"}

C22_OnlyStartRaises ==
    \A r \in RunIds :
        /\ pc[r] = "raised"
              => /\ hist[r].returned = <<>>
                 /\ hist[r].invoked = {}
                 /\ hist[r].failed = <<>>
                 /\ exc[r] \in {StorageFault,
                                NotFoundError("WorkflowDefinition",
                                              hist[r].workflow_id)}
        /\ pc[r] \in ExecutionPositions \cup {"done"}
              => /\ hist[r].returned # <<>>
                 /\ hist[r].returned[1].status = "running"
                 /\ hist[r].returned[1].error = <<>>
        /\ (pc[r] = "done" /\ (hist[r].failed # <<>> \/ exc[r] # <<>>))
              => (runs[r].status = "failed" \/ hist[r].fault)

C22_ExecutionContained ==
    \A r \in RunIds :
        /\ pc[r] \in ExecutionPositions
              => pc'[r] \in ExecutionPositions \cup {"done"}
        /\ pc[r] = "done" => pc'[r] = "done"
        /\ hist[r].returned # <<>> => hist'[r].returned = hist[r].returned

C22_NoFailureEscapes == []C22_OnlyStartRaises /\ [][C22_ExecutionContained]_vars

\* a step failed and the save of the failure raised too: the execution
\* ended, and the caller holds the running Run it was given
C22_Witness ==
    \E r \in RunIds :
        /\ pc[r] = "done"
        /\ hist[r].failed # <<>>
        /\ hist[r].fault
        /\ exc[r] = StorageFault
        /\ hist[r].returned # <<>>
        /\ runs[r].status = "failed"
        /\ runs[r].error = StorageFault

----------------------------------------------------------------------------
\* The status the store shows for step s of run r
StoredStep(store, r, s) ==
    IF r \in DOMAIN store /\ s \in DOMAIN store[r].steps
    THEN store[r].steps[s].status ELSE "absent"

\* Step s of the workflow is met again by following next_step_id from it
OnCycle(workflow, s) ==
    /\ FindStep(workflow.steps, s) # <<>>
    /\ s \in ChainFrom(workflow, NextOf(workflow, s), {})

(* C23, as claimed: the stored records of one step go from pending to      *)
(* running and from running to completed or failed, and in no other way.   *)
C23_StepSequence ==
    \A r \in RunIds, s \in StepIds :
        \/ StoredStep(runs', r, s) = StoredStep(runs, r, s)
        \/ <<StoredStep(runs, r, s), StoredStep(runs', r, s)>> \in
              { <<"absent", "pending">>, <<"pending", "running">>,
                <<"running", "completed">>, <<"running", "failed">> }

C23_StrictSequence == [][C23_StepSequence]_vars

(* C23, amended: while a step's connector is due or running the store      *)
(* shows that step as running and as current; a save marks a step running  *)
(* only when the store already shows it as current and shows the step      *)
(* completed before it as completed; the save that completes a step stores *)
(* its next_step_id as current; the stored records of one step go from     *)
(* pending to running and from running to completed or failed, and besides *)
(* from completed to running for a step on a cycle, and from absent to     *)
(* running for a step that only a replacing definition has.                *)
C23_RunningBeforeInvoked ==
    \A r \in RunIds :
        pc[r] \in {"exec", "await"}
        => /\ runs[r].current_step_id = mem[r].obj.current_step_id
           /\ StoredStep(runs, r, mem[r].obj.current_step_id) = "running"

C23_Ordered ==
    \A r \in RunIds, s \in StepIds :
        /\ hist'[r].invoked # hist[r].invoked /\ s \in hist'[r].invoked \ hist[r].invoked
              => StoredStep(runs, r, s) = "running"
        /\ (StoredStep(runs, r, s) # "running" /\ StoredStep(runs', r, s) = "running")
              => /\ runs[r].current_step_id = s
                 /\ hist[r].lastDone # NoneId
                       => /\ StoredStep(runs, r, hist[r].lastDone) = "completed"
                          /\ NextOf(wfl'[r], hist[r].lastDone) = s
        /\ (StoredStep(runs, r, s) # "completed" /\ StoredStep(runs', r, s) = "completed")
              => /\ StoredStep(runs, r, s) = "running"
                 /\ runs[r].current_step_id = s
                 /\ runs'[r].current_step_id = NextOf(wfl[r], s)
        /\ \/ StoredStep(runs', r, s) = StoredStep(runs, r, s)
           \/ <<StoredStep(runs, r, s), StoredStep(runs', r, s)>> \in
                 { <<"absent", "pending">>, <<"pending", "running">>,
                   <<"running", "completed">>, <<"running", "failed">> }
           \/ /\ StoredStep(runs, r, s) = "completed"
              /\ StoredStep(runs', r, s) = "running"
              /\ OnCycle(wfl[r], s)
           \/ /\ StoredStep(runs, r, s) = "absent"
              /\ StoredStep(runs', r, s) = "running"
              /\ s \notin StepIdsOf(hist[r].workflow)
              /\ s \in StepIdsOf(wfl[r])

C23_PersistedInOrder == []C23_RunningBeforeInvoked /\ [][C23_Ordered]_vars

\* B is stored as running with its connector invoked, A before it completed
C23_Witness ==
    \E r \in RunIds :
        /\ pc[r] = "await"
        /\ wfl[r] = Linear
        /\ runs[r].current_step_id = "B"
        /\ "B" \in hist[r].invoked
        /\ runs[r].steps["A"].status = "completed"
        /\ runs[r].steps["B"].status = "running"
        /\ runs[r].steps["C"].status = "pending"

\* a step of a cycle stored as running a second time
C23_WitnessCycle ==
    \E r \in RunIds :
        /\ pc[r] = "exec"
        /\ wfl[r] = Cyclic
        /\ hist[r].done = {"A", "B"}
        /\ runs[r].steps["A"].status = "running"

----------------------------------------------------------------------------
\* The steps of the workflow's chain that lie on its cycle
CycleSteps(workflow) == {s \in Chain(workflow) : OnCycle(workflow, s)}

(* C24: a definition whose next_step_id chain from entry_point has a cycle *)
(* (a step that is its own successor included) passes validation and is    *)
(* stored; a run of it in which no step failed and no storage call raised  *)
(* is never stored as completed or failed and its execution never ends:    *)
(* each time the loop is entered the current step is a step of the chain,  *)
(* and once a step of the cycle completed it is a step of the cycle.       *)
C24_CyclesRun ==
    /\ \A w \in DOMAIN workflows :
          /\ ~Acyclic(workflows[w])
          /\ WorkflowDefinitionError(workflows[w].entry_point,
                                     workflows[w].steps) = <<>>
    /\ \A r \in RunIds :
          (/\ pc[r] \in ExecutionPositions \cup {"done"}
           /\ hist[r].failed = <<>>
           /\ ~hist[r].fault)
          => /\ runs[r].status = "running"
             /\ pc[r] # "done"
             /\ pc[r] # "scheduled"
                   => /\ mem[r].obj.current_step_id \in Chain(wfl[r])
                      /\ hist[r].done \cap CycleSteps(wfl[r]) # {}
                            => mem[r].obj.current_step_id \in CycleSteps(wfl[r])

\* the step that is its own successor is running for the second time
C24_Witness ==
    \E r \in RunIds :
        /\ pc[r] = "await"
        /\ wfl[r] = SelfLoop
        /\ hist[r].failed = <<>>
        /\ ~hist[r].fault
        /\ "A" \in hist[r].done
        /\ runs[r].status = "running"
        /\ runs[r].steps["A"].status = "running"

\* both steps of A -> B -> A completed, and A is running again
C24_WitnessPair ==
    \E r \in RunIds :
        /\ pc[r] = "await"
        /\ wfl[r] = Cyclic
        /\ hist[r].failed = <<>>
        /\ ~hist[r].fault
        /\ hist[r].done = {"A", "B"}
        /\ runs[r].steps["A"].status = "running"

----------------------------------------------------------------------------
\* The execution of run r ended through the outer handler with this text,
\* and no storage call was made to raise
EndedWith(r, message) ==
    /\ pc[r] = "done"
    /\ faults = 0
    /\ exc[r] = message

(* C25, as claimed: an execution that finds no definition of the run's     *)
(* current step, the definition having been replaced or deleted since the  *)
(* start, ends with the run stored as failed with an error that names the  *)
(* step.                                                                   *)
C25_MissingStepNamed ==
    \A r \in RunIds :
        (pc[r] = "done" /\ faults = 0 /\ exc[r] # <<>>)
        => /\ runs[r].status = "failed"
           /\ runs[r].error =
                 step_not_found(runs[r].current_step_id, runs[r].workflow_id)

(* C25, amended: when the loop finds no step of the loaded definition with *)
(* the run's current_step_id it marks nothing and saves nothing, and       *)
(* raises the error naming the step; the run then ends stored as failed    *)
(* with that error, the step's Step Run absent or pending; when the        *)
(* definition was deleted the run ends stored as failed with the storage's *)
(* not-found error, which names the workflow, and no Step Run was started. *)
C25_Lookup ==
    \A r \in RunIds :
        (/\ pc[r] = "loop"
         /\ pc'[r] # "loop"
         /\ mem[r].obj.current_step_id # NoneId
         /\ FindStep(wfl[r].steps, mem[r].obj.current_step_id) = <<>>)
        => /\ pc'[r] = "outer"
           /\ exc'[r] = step_not_found(mem[r].obj.current_step_id,
                                       mem[r].obj.workflow_id)
           /\ runs' = runs
           /\ mem' = mem

C25_Ended ==
    \A r \in RunIds :
        /\ \A s \in StepIds :
              EndedWith(r, step_not_found(s, hist[r].workflow_id))
              => /\ runs[r].status = "failed"
                 /\ runs[r].completed_at
                 /\ runs[r].current_step_id = s
                 /\ runs[r].error = step_not_found(s, runs[r].workflow_id)
                 /\ StoredStep(runs, r, s) \in {"absent", "pending"}
                 /\ s \notin hist[r].invoked
                 /\ RunningSteps(runs[r]) = {}
        /\ EndedWith(r, NotFoundError("WorkflowDefinition", hist[r].workflow_id))
              => /\ runs[r].status = "failed"
                 /\ runs[r].completed_at
                 /\ runs[r].error = NotFoundError("WorkflowDefinition",
                                                  runs[r].workflow_id)
                 /\ hist[r].invoked = {}
                 /\ \A s \in DOMAIN runs[r].steps :
                       runs[r].steps[s].status = "pending"

C25_MissingStep == []C25_Ended /\ [][C25_Lookup]_vars

\* a run started at B whose definition was replaced by one without B
C25_Witness ==
    \E r \in RunIds :
        /\ EndedWith(r, step_not_found("B", "w1"))
        /\ runs[r].status = "failed"
        /\ runs[r].error = <<"Step ", "B", " not found in workflow ", "w1">>
        /\ runs[r].steps["B"].status = "pending"

\* a run whose definition was deleted before the execution loaded it
C25_WitnessDeleted ==
    \E r \in RunIds :
        /\ EndedWith(r, NotFoundError("WorkflowDefinition", "w1"))
        /\ runs[r].status = "failed"
        /\ runs[r].current_step_id # NoneId

----------------------------------------------------------------------------
\* The text of the error of line 150
UnsupportedStepType(type) == <<"Unsupported step type: ", type>>

\* The step the execution of run r is at has a type without table entry
AtUnlisted(r) ==
    /\ pc[r] = "exec"
    /\ FindStep(wfl[r].steps, mem[r].obj.current_step_id)[1].type
          \notin DOMAIN CONNECTOR_MAP

(* C26: dispatching a step whose type has no entry in CONNECTOR_MAP raises *)
(* "Unsupported step type: <type>" whatever the step's config is, and the  *)
(* connector table is not used: no connector is invoked for the step; the  *)
(* inner handler takes the error as the step's failure, and when its save  *)
(* succeeds the store shows the Step Run failed with that error and the    *)
(* Run failed with "Step <id> failed: Unsupported step type: <type>".      *)
C26_Dispatch ==
    \A r \in RunIds :
        AtUnlisted(r)
        => LET s == mem[r].obj.current_step_id
               type == FindStep(wfl[r].steps, s)[1].type
           IN  /\ pc'[r] \in {"done", "outer"}
               /\ hist'[r].failed = <<s, UnsupportedStepType(type)>>
               /\ hist'[r].invoked = hist[r].invoked
               /\ pc'[r] = "done"
                     => /\ runs'[r].steps[s].status = "failed"
                        /\ runs'[r].steps[s].error = UnsupportedStepType(type)
                        /\ runs'[r].status = "failed"
                        /\ runs'[r].error =
                              <<"Step ", s, " failed: ">> \o
                              UnsupportedStepType(type)

C26_Recorded ==
    \A r \in RunIds :
        /\ \A s \in hist[r].invoked :
              FindStep(wfl[r].steps, s)[1].type \in DOMAIN CONNECTOR_MAP
        /\ (pc[r] = "done" /\ ~hist[r].fault) => hist[r].failed # <<>>

C26_UnsupportedStepType == []C26_Recorded /\ [][C26_Dispatch]_vars

\* the second step has an unlisted type and a config DelayConfig accepts
C26_Witness ==
    \E r \in RunIds :
        /\ pc[r] = "done"
        /\ wfl[r] = EmailSecond
        /\ hist[r].invoked = {"A"}
        /\ runs[r].steps["A"].status = "completed"
        /\ runs[r].steps["B"].status = "failed"
        /\ runs[r].steps["B"].error = <<"Unsupported step type: ", "email">>
        /\ runs[r].steps["C"].status = "pending"
        /\ runs[r].status = "failed"
        /\ runs[r].error = <<"Step ", "B", " failed: ", "Unsupported step type: ", "email">>

----------------------------------------------------------------------------
\* run.py, lines 7-19: the members of RunStatus and StepStatus
RunStatus == {"pending", "running", "completed", "failed", "paused"}
StepStatus == {"pending", "running", "completed", "failed", "skipped"}

\* The record of a run, stored or in memory, uses no reserved status
NoReserved(rec) ==
    /\ rec.status \in RunStatus \ {"paused"}
    /\ \A s \in DOMAIN rec.steps : rec.steps[s].status \in StepStatus \ {"skipped"}

(* C27: no run, stored or in memory, has status paused and no Step Run has *)
(* status skipped; in a run stored as failed every step that was never     *)
(* started (its connector never invoked, not the failed step, not the      *)
(* current step) is pending, with no start_time, end_time, output or error.*)
C27_NoReservedStatus ==
    \A r \in RunIds :
        /\ NoReserved(mem[r].obj)
        /\ r \in DOMAIN runs
              => /\ NoReserved(runs[r])
                 /\ runs[r].status = "failed"
                       => \A s \in DOMAIN runs[r].steps :
                             (/\ s \notin hist[r].invoked
                              /\ s # runs[r].current_step_id)
                             => /\ runs[r].steps[s].status = "pending"
                                /\ ~runs[r].steps[s].start_time
                                /\ ~runs[r].steps[s].end_time
                                /\ runs[r].steps[s].output = <<>>
                                /\ runs[r].steps[s].error = <<>>

\* a run that failed at its second step: the first is completed, the third
\* has the status it was created with
C27_Witness ==
    \E r \in RunIds :
        /\ pc[r] = "done"
        /\ wfl[r] = BadDelay
        /\ runs[r].status = "failed"
        /\ runs[r].current_step_id = "B"
        /\ runs[r].steps["A"].status = "completed"
        /\ runs[r].steps["B"].status = "failed"
        /\ runs[r].steps["C"] = StepRun("C")

----------------------------------------------------------------------------
(* C28: once a Step Run is stored as completed, every later save of the    *)
(* run that still shows it completed shows the same output.                *)
C28_Frozen ==
    \A r \in RunIds, s \in StepIds :
        (/\ StoredStep(runs, r, s) = "completed"
         /\ StoredStep(runs', r, s) = "completed")
        => runs'[r].steps[s].output = runs[r].steps[s].output

C28_OutputFrozen == [][C28_Frozen]_vars

----------------------------------------------------------------------------
\* The steps the record shows as failed
FailedSteps(rec) == {s \in DOMAIN rec.steps : rec.steps[s].status = "failed"}

(* C29: in every stored state of a run a Step Run is failed only if the    *)
(* Run is failed, at most one Step Run is failed, and no Step Run is       *)
(* running when the Run is completed or failed.                            *)
C29_StepsAgreeWithRun ==
    \A r \in DOMAIN runs :
        /\ FailedSteps(runs[r]) # {} => runs[r].status = "failed"
        /\ Cardinality(FailedSteps(runs[r])) <= 1
        /\ runs[r].status \in {"completed", "failed"}
              => RunningSteps(runs[r]) = {}

----------------------------------------------------------------------------
\* In the record every step of the workflow's chain is completed and every
\* other step of the workflow is as add_step made it
ChainCompleted(rec, workflow) ==
    \A s \in StepIdsOf(workflow) :
        IF s \in Chain(workflow)
        THEN rec.steps[s].status = "completed"
        ELSE rec.steps[s] = StepRun(s)

(* C30, as claimed: a run stored as completed has every step reachable     *)
(* from the entry_point of its definition completed and every other step   *)
(* of the definition pending with no start_time, output or error.          *)
C30_CompletedChain ==
    \A r \in DOMAIN runs :
        runs[r].status = "completed" => ChainCompleted(runs[r], hist[r].workflow)

(* C30, amended: the same of a run whose execution loaded the definition   *)
(* the run was started on; the Step Runs of a completed run are then       *)
(* exactly the steps of that definition.                                   *)
C30_CompletedOwnChain ==
    \A r \in DOMAIN runs :
        (runs[r].status = "completed" /\ wfl[r] = hist[r].workflow)
        => /\ DOMAIN runs[r].steps = StepIdsOf(wfl[r])
           /\ ChainCompleted(runs[r], wfl[r])
           /\ Chain(wfl[r]) = hist[r].done

\* a completed run of B -> C with A apart: A is as it was created
C30_Witness ==
    \E r \in RunIds :
        /\ r \in DOMAIN runs
        /\ wfl[r] = Island
        /\ hist[r].workflow = Island
        /\ runs[r].status = "completed"
        /\ runs[r].steps["A"] = StepRun("A")
        /\ runs[r].steps["B"].status = "completed"
        /\ runs[r].steps["C"].status = "completed"

\* a run started on A -> B -> C whose execution loaded a definition where A
\* has no successor: the run completed after A, B stays pending
C30_WitnessReplaced ==
    \E r \in RunIds :
        /\ r \in DOMAIN runs
        /\ hist[r].workflow = Linear
        /\ wfl[r] = IslandPair
        /\ runs[r].status = "completed"
        /\ runs[r].steps["B"].status = "pending"

----------------------------------------------------------------------------
(* C31: in a run whose trigger context has no "error" key, the stored      *)
(* output of a completed Webhook step has the key "error" exactly when     *)
(* that step's HTTP call failed and the key "response" exactly when it     *)
(* succeeded, whatever happened to the Webhook steps before it.            *)
C31_OwnCallReported ==
    \A r \in DOMAIN runs :
        "error" \notin DOMAIN TriggerContext(r)
        => \A s \in DOMAIN runs[r].steps :
              (/\ runs[r].steps[s].status = "completed"
               /\ FindStep(wfl[r].steps, s) # <<>>
               /\ FindStep(wfl[r].steps, s)[1].type = "webhook")
              => LET output == runs[r].steps[s].output[1]
                 IN  /\ "error" \in DOMAIN output <=> s \in hist[r].httpFailed
                     /\ "response" \in DOMAIN output <=> s \in hist[r].httpOk

----------------------------------------------------------------------------
(* C32: after start_workflow raised, the store holds no record of the run  *)
(* it was creating; a run is stored as pending only while start_workflow   *)
(* is between its create_run and its update_run.                           *)
C32_AllOrNothing ==
    \A r \in RunIds :
        /\ pc[r] = "raised" => r \notin DOMAIN runs
        /\ (r \in DOMAIN runs /\ runs[r].status = "pending")
              => pc[r] = "start_update"

====
